---- MODULE Spec2Model ----
(***************************************************************************)
(* A model of rlox: the scanner (tokens.rs), the recursive-descent parser  *)
(* (parser.rs), the break checker (context.rs), the scope chain            *)
(* (environment.rs), the tree-walking evaluator (interpreter.rs) and the   *)
(* entry point run (lib.rs).                                               *)
(*                                                                         *)
(* Source text is a sequence of one-character strings; indices into it are *)
(* 0-based as in the Rust code (src[i+1] is Rust's byte i).                *)
(***************************************************************************)
EXTENDS Integers, Sequences, FiniteSets, TLC

VARIABLES
  src,        \* Scanner.src: the source text
  start,      \* Scanner.start
  current,    \* Scanner.current
  line,       \* Scanner.line
  term,       \* grab_token's local `term`: block comment nesting depth
  tokens,     \* Scanner.tokens, then the value scan_tokens returned
  had_error,  \* ErrorReporter.had_error
  diags,      \* the lines ErrorReporter.report has written, in order
  pc,         \* where run (or the called entry point) stands
  stmts,      \* the statement list under check / interpretation
  parsed,     \* the value Parser::parse returned: "Ok", "Err" or "None" (not yet)
  ctx_errs,   \* the value context::check returned
  env,        \* Interpreter.env: the Stack
  frames,     \* the evaluator's active visit_* calls, innermost last
  cur,        \* the statement being executed or the result being returned
  output,     \* the lines println! has written, in order
  rt_msgs,    \* the runtime messages run has written with eprintln!
  result,     \* the value interpret returned, "None" before that
  steps       \* number of evaluator steps taken

vars == <<src, start, current, line, term, tokens, had_error, diags, pc, stmts,
          parsed, ctx_errs, env, frames, cur, output, rt_msgs, result, steps>>

lexVars  == <<start, current, line, term, tokens>>
evalVars == <<env, frames, cur, output, rt_msgs, result, steps>>

(***************************************************************************)
(* Bounds                                                                  *)
(***************************************************************************)
MaxSrcLen == 4    \* length of the generated source texts
MaxLine   == 6    \* cap of the line counter
MaxSteps  == 40   \* cap of the number of evaluator steps

None == "None"

(***************************************************************************)
(* Characters (tokens.rs 144-154)                                          *)
(***************************************************************************)
Digits == {"0", "1", "2", "3", "4", "5", "6", "7", "8", "9"}

Letters ==
  {"a", "b", "c", "d", "e", "f", "g", "h", "i", "j", "k", "l", "m", "n", "o",
   "p", "q", "r", "s", "t", "u", "v", "w", "x", "y", "z",
   "A", "B", "C", "D", "E", "F", "G", "H", "I", "J", "K", "L", "M", "N", "O",
   "P", "Q", "R", "S", "T", "U", "V", "W", "X", "Y", "Z"}

is_digit(c) == c \in Digits

is_alpha(c) == c \in Letters \/ c = "_"

is_alpha_numeric(c) == is_digit(c) \/ is_alpha(c)

DigitVal(c) ==
  CASE c = "0" -> 0 [] c = "1" -> 1 [] c = "2" -> 2 [] c = "3" -> 3
    [] c = "4" -> 4 [] c = "5" -> 5 [] c = "6" -> 6 [] c = "7" -> 7
    [] c = "8" -> 8 [] c = "9" -> 9

(***************************************************************************)
(* Literal values (tokens.rs 79-85).  A Number is the rational n/d in      *)
(* lowest terms with d > 0: the decimal literals of the source and the     *)
(* arithmetic on them are exact in it within the bounds of the model.      *)
(***************************************************************************)
RECURSIVE Gcd(_, _)
Gcd(a, b) == IF b = 0 THEN a ELSE Gcd(b, a % b)

Abs(a) == IF a < 0 THEN -a ELSE a

Number(n, d) ==
  LET g == Gcd(Abs(n), d)
  IN  [k |-> "Number", n |-> n \div g, d |-> d \div g]

String(s) == [k |-> "String", s |-> s]

Boolean(b) == [k |-> "Boolean", b |-> b]

Nil == [k |-> "Nil"]

\* str::parse::<f64> on digits, optionally followed by '.' and digits
RECURSIVE ParseDigits(_, _, _)
ParseDigits(s, i, acc) ==
  IF i > Len(s) \/ ~is_digit(s[i]) THEN [v |-> acc, i |-> i]
  ELSE ParseDigits(s, i + 1, acc * 10 + DigitVal(s[i]))

RECURSIVE Pow10(_)
Pow10(e) == IF e = 0 THEN 1 ELSE 10 * Pow10(e - 1)

ParseNumber(s) ==
  LET ip == ParseDigits(s, 1, 0)
  IN  IF ip.i > Len(s) THEN Number(ip.v, 1)
      ELSE LET fp == ParseDigits(s, ip.i + 1, 0)
               e  == Len(s) - ip.i
           IN  Number(ip.v * Pow10(e) + fp.v, Pow10(e))

(***************************************************************************)
(* Tokens (tokens.rs 115-129).  t_type is the TokenType variant; the       *)
(* payload of TokenType::Literal is kept in literal (None otherwise).      *)
(***************************************************************************)
NoLiteral == [k |-> "None"]

Token(tk, lexeme, ln) ==
  [t_type |-> tk, line |-> ln, lexeme |-> lexeme, literal |-> NoLiteral]

LiteralToken(lit, lexeme, ln) ==
  [t_type |-> "Literal", line |-> ln, lexeme |-> lexeme, literal |-> lit]

KEYWORD_MAP(name) ==
  CASE name = <<"a", "n", "d">>                -> [t |-> "And", l |-> NoLiteral]
    [] name = <<"c", "l", "a", "s", "s">>      -> [t |-> "Class", l |-> NoLiteral]
    [] name = <<"e", "l", "s", "e">>           -> [t |-> "Else", l |-> NoLiteral]
    [] name = <<"f", "a", "l", "s", "e">>      -> [t |-> "Literal", l |-> Boolean(FALSE)]
    [] name = <<"f", "o", "r">>                -> [t |-> "For", l |-> NoLiteral]
    [] name = <<"f", "u", "n">>                -> [t |-> "Fun", l |-> NoLiteral]
    [] name = <<"i", "f">>                     -> [t |-> "If", l |-> NoLiteral]
    [] name = <<"n", "i", "l">>                -> [t |-> "Literal", l |-> Nil]
    [] name = <<"o", "r">>                     -> [t |-> "Or", l |-> NoLiteral]
    [] name = <<"p", "r", "i", "n", "t">>      -> [t |-> "Print", l |-> NoLiteral]
    [] name = <<"r", "e", "t", "u", "r", "n">> -> [t |-> "Return", l |-> NoLiteral]
    [] name = <<"s", "u", "p", "e", "r">>      -> [t |-> "Super", l |-> NoLiteral]
    [] name = <<"t", "h", "i", "s">>           -> [t |-> "This", l |-> NoLiteral]
    [] name = <<"t", "r", "u", "e">>           -> [t |-> "Literal", l |-> Boolean(TRUE)]
    [] name = <<"v", "a", "r">>                -> [t |-> "Var", l |-> NoLiteral]
    [] name = <<"w", "h", "i", "l", "e">>      -> [t |-> "While", l |-> NoLiteral]
    [] OTHER                                   -> [t |-> "Identifier", l |-> NoLiteral]

(***************************************************************************)
(* ErrorReporter (lib.rs 18-39)                                            *)
(***************************************************************************)
report(ds, ln, place, msg) == Append(ds, [line |-> ln, place |-> place, msg |-> msg])

error(ds, ln, msg) == report(ds, ln, <<>>, msg)

(***************************************************************************)
(* Scanner (tokens.rs 156-384).  The operators below read the scanner's    *)
(* fields; a scanning function is an operator from the position it starts  *)
(* at to the scanner state it leaves, as a record                          *)
(*   [current, line, tokens, diags, pc, term].                             *)
(* Slicing src beyond its length panics in Rust: pc becomes "panic".       *)
(***************************************************************************)
is_at_end(c) == c >= Len(src)

\* src[c..].chars().next(): "Panic" when c is beyond the end of src
get_current_char(c) ==
  IF c > Len(src) THEN "Panic" ELSE IF c = Len(src) THEN None ELSE src[c + 1]

\* src[c + 1..].chars().next()
peek_next(c) == get_current_char(c + 1)

Lexeme(c) == SubSeq(src, start' + 1, c)

LexState(c, ln, tks, ds, p) ==
  [current |-> c, line |-> ln, tokens |-> tks, diags |-> ds, pc |-> p, term |-> 0]

\* add_token: the lexeme is src[start..current]
add_token(c, tk) == LexState(c, line, Append(tokens, Token(tk, Lexeme(c), line)), diags, "scan")

add_literal(c, lit) ==
  LexState(c, line, Append(tokens, LiteralToken(lit, Lexeme(c), line)), diags, "scan")

\* match_char followed by add_token of one of two types
two_char(c, second, both, single) ==
  IF get_current_char(c) = second THEN add_token(c + 1, both) ELSE add_token(c, single)

\* the loops `while let Some(x) = get_current_char() { if !is_digit(x) {break} else {advance()} }`
RECURSIVE SkipDigits(_)
SkipDigits(c) ==
  IF c < Len(src) /\ is_digit(src[c + 1]) THEN SkipDigits(c + 1) ELSE c

RECURSIVE SkipAlphaNumeric(_)
SkipAlphaNumeric(c) ==
  IF c < Len(src) /\ is_alpha_numeric(src[c + 1]) THEN SkipAlphaNumeric(c + 1) ELSE c

\* the loop of the `//` arm: advance up to a newline or the end
RECURSIVE SkipLine(_)
SkipLine(c) ==
  IF c < Len(src) /\ src[c + 1] # "\n" THEN SkipLine(c + 1) ELSE c

identifier(c0) ==
  LET c  == SkipAlphaNumeric(c0)
      kw == KEYWORD_MAP(Lexeme(c))
  IN  IF kw.t = "Literal" THEN add_literal(c, kw.l) ELSE add_token(c, kw.t)

number(c0) ==
  LET c1 == SkipDigits(c0)
  IN  \* the tuple (get_current_char(), peek_next()) evaluates both
      IF peek_next(c1) = "Panic" THEN LexState(c1, line, tokens, diags, "panic")
      ELSE LET c2 == IF get_current_char(c1) = "." /\ peek_next(c1) \in Digits
                     THEN SkipDigits(c1 + 1) ELSE c1
           IN  add_literal(c2, ParseNumber(Lexeme(c2)))

\* the loop of string(): [closed, current, line] once advance() returned '"' or None
RECURSIVE StringLoop(_, _)
StringLoop(c, ln) ==
  IF c >= Len(src) THEN [closed |-> FALSE, current |-> c + 1, line |-> ln]
  ELSE IF src[c + 1] = "\"" THEN [closed |-> TRUE, current |-> c + 1, line |-> ln]
  ELSE StringLoop(c + 1, IF src[c + 1] = "\n" THEN ln + 1 ELSE ln)

string(c0) ==
  LET r == StringLoop(c0, line)
  IN  IF ~r.closed
      THEN LexState(r.current, r.line, tokens, error(diags, r.line, "Unterminated string."), "scan")
      ELSE LexState(r.current, r.line,
                    Append(tokens, LiteralToken(String(SubSeq(src, start' + 2, r.current - 1)),
                                                Lexeme(r.current), r.line)),
                    diags, "scan")

\* grab_token after `let next = self.advance().unwrap()`: c is current, next the character read
grab_token(next, c) ==
  CASE next = "(" -> add_token(c, "LeftParen")
    [] next = ")" -> add_token(c, "RightParen")
    [] next = "{" -> add_token(c, "LeftBrace")
    [] next = "}" -> add_token(c, "RightBrace")
    [] next = "," -> add_token(c, "Comma")
    [] next = "." -> add_token(c, "Dot")
    [] next = "-" -> add_token(c, "Minus")
    [] next = "+" -> add_token(c, "Plus")
    [] next = ";" -> add_token(c, "Semicolon")
    [] next = "*" -> add_token(c, "Star")
    [] next = "?" -> add_token(c, "QuestionMark")
    [] next = ":" -> add_token(c, "Colon")
    [] next = "!" -> two_char(c, "=", "BangEqual", "Bang")
    [] next = "=" -> two_char(c, "=", "EqualEqual", "Equal")
    [] next = "<" -> two_char(c, "=", "LessEqual", "Less")
    [] next = ">" -> two_char(c, "=", "GreaterEqual", "Greater")
    [] next = "/" ->
         IF get_current_char(c) = "/"
         THEN LexState(SkipLine(c + 1), line, tokens, diags, "scan")
         ELSE IF get_current_char(c) = "*"
         THEN [LexState(c + 1, line, tokens, diags, "comment") EXCEPT !.term = 1]
         ELSE add_token(c, "Slash")
    [] next \in {" ", "\r", "\t"} -> LexState(c, line, tokens, diags, "scan")
    [] next = "\n" -> LexState(c, line + 1, tokens, diags, "scan")
    [] next = "\"" -> string(c)
    [] is_digit(next) -> number(c)
    [] is_alpha(next) -> identifier(c)
    [] OTHER -> LexState(c, line, tokens, error(diags, line, "Unexpected character."), "scan")

\* one iteration of the `while let (Some(curr), Some(next)) = ...` loop of a block
\* comment (tokens.rs 253-271), with the check that follows the loop (273-275)
comment_step(c) ==
  LET curr == get_current_char(c)
      next == peek_next(c)
  IN  IF curr = "Panic" \/ next = "Panic" THEN LexState(c, line, tokens, diags, "panic")
      ELSE IF curr = None \/ next = None
      THEN LexState(c, line, tokens, error(diags, line, "Unclosed block comment."), "scan")
      ELSE LET closes == curr = "*" /\ next = "/"
               opens  == curr = "/" /\ next = "*"
               t  == IF closes THEN term - 1 ELSE IF opens THEN term + 1 ELSE term
               c2 == IF closes \/ opens THEN c + 2 ELSE IF curr = "\n" THEN c ELSE c + 1
               ln == IF ~closes /\ ~opens /\ curr = "\n" THEN line + 1 ELSE line
           IN  IF t = 0 THEN LexState(c2, ln, tokens, diags, "scan")
               ELSE [LexState(c2, ln, tokens, diags, "comment") EXCEPT !.term = t]

SetLex(r) ==
  /\ current' = r.current
  /\ line' = r.line
  /\ tokens' = r.tokens
  /\ diags' = r.diags
  /\ had_error' = (had_error \/ r.diags # diags)
  /\ pc' = r.pc
  /\ term' = r.term

\* scan_tokens, one iteration of its loop: start = current; grab_token()
ScanToken ==
  /\ pc = "scan"
  /\ ~is_at_end(current)
  /\ start' = current
  /\ SetLex(grab_token(src[current + 1], current + 1))
  /\ UNCHANGED <<src, stmts, parsed, ctx_errs, evalVars>>

\* grab_token's block comment loop, one iteration
CommentStep ==
  /\ pc = "comment"
  /\ line < MaxLine
  /\ start' = start
  /\ SetLex(comment_step(current))
  /\ UNCHANGED <<src, stmts, parsed, ctx_errs, evalVars>>

\* scan_tokens after its loop: push Eof and return the tokens
ScanEof ==
  /\ pc = "scan"
  /\ is_at_end(current)
  /\ tokens' = Append(tokens, Token("Eof", <<>>, line))
  /\ pc' = "parse"
  /\ UNCHANGED <<src, start, current, line, term, had_error, diags, stmts, parsed,
                 ctx_errs, evalVars>>

(***************************************************************************)
(* Syntax trees (syntax.rs 5-27).  An expression is a record with its      *)
(* variant in k, a statement a record with its variant in s; Option::None  *)
(* is NoExpr / NoStmt.                                                     *)
(***************************************************************************)
NoExpr == [k |-> "None"]

NoStmt == [s |-> "None"]

NoToken == [t_type |-> "None", line |-> 0, lexeme |-> <<>>, literal |-> NoLiteral]

ELiteral(lit)         == [k |-> "Literal", lit |-> lit]
EGrouping(e)          == [k |-> "Grouping", e |-> e]
EUnary(op, e)         == [k |-> "Unary", op |-> op, e |-> e]
EBinary(l, op, r)     == [k |-> "Binary", l |-> l, op |-> op, r |-> r]
ELogical(l, op, r)    == [k |-> "Logical", l |-> l, op |-> op, r |-> r]
ETernary(op, c, t, f) == [k |-> "Ternary", op |-> op, c |-> c, t |-> t, f |-> f]
EVar(name)            == [k |-> "Var", name |-> name]
EAssignment(name, v)  == [k |-> "Assignment", name |-> name, value |-> v]
ECall(callee, tk, as) == [k |-> "Call", callee |-> callee, paren |-> tk, args |-> as]

SPrint(e)          == [s |-> "Print", e |-> e]
SExpr(e)           == [s |-> "Expr", e |-> e]
SVar(name, init)   == [s |-> "Var", name |-> name, init |-> init]
SBlock(ss)         == [s |-> "Block", stmts |-> ss]
SIf(c, t, o)       == [s |-> "If", cond |-> c, then |-> t, otherwise |-> o]
SWhile(c, b)       == [s |-> "While", cond |-> c, body |-> b]
SBreak(ln)         == [s |-> "Break", line |-> ln]

(***************************************************************************)
(* Parser (parser.rs).  ps is the parser: [tokens, previous, diags, panic] *)
(* with diags the lines reported to err_rep; a parsing function maps ps to *)
(* [ok, v, ps]: ok is Result's Ok/Err, v the parsed node.  An unwrap() of  *)
(* None sets ps.panic and unwinds.                                         *)
(***************************************************************************)
POk(v, ps) == [ok |-> TRUE, v |-> v, ps |-> ps]

PErr(ps) == [ok |-> FALSE, v |-> NoExpr, ps |-> ps]

PPanic(ps) == [ok |-> FALSE, v |-> NoExpr, ps |-> [ps EXCEPT !.panic = TRUE]]

peek(ps) == IF ps.tokens = <<>> THEN NoToken ELSE Head(ps.tokens)

check(ps, ty) == ps.tokens # <<>> /\ Head(ps.tokens).t_type = ty

p_is_at_end(ps) == ps.tokens = <<>>

\* self.previous = self.tokens.pop_front()
p_advance(ps) ==
  IF ps.tokens = <<>> THEN [ps EXCEPT !.previous = NoToken]
  ELSE [ps EXCEPT !.previous = Head(ps.tokens), !.tokens = Tail(ps.tokens)]

\* curr_match: [m, ps], the token consumed when one of the types matches
curr_match(ps, tys) ==
  IF \E ty \in tys : check(ps, ty) THEN [m |-> TRUE, ps |-> p_advance(ps)]
  ELSE [m |-> FALSE, ps |-> ps]

\* previous(): Option::take
previous(ps) == [tk |-> ps.previous, ps |-> [ps EXCEPT !.previous = NoToken]]

AtEnd == <<"a", "t", " ", "e", "n", "d">>

p_error(ps, token, msg) ==
  IF token.t_type = "Eof" THEN [ps EXCEPT !.diags = report(@, token.line, AtEnd, msg)]
  ELSE [ps EXCEPT !.diags = report(@, token.line, token.lexeme, msg)]

consume(ps, ty, msg) ==
  IF check(ps, ty) THEN POk(Head(ps.tokens), p_advance(ps))
  ELSE IF ps.tokens = <<>> THEN PPanic(ps)
  ELSE PErr(p_error(ps, peek(ps), msg))

RECURSIVE sync_loop(_)
sync_loop(ps) ==
  IF ps.tokens = <<>> THEN ps
  ELSE IF ps.previous.t_type = "Semicolon" THEN ps
  ELSE IF peek(ps).t_type \in {"Class", "Fun", "Var", "For", "If", "While", "Print", "Return"}
  THEN ps
  ELSE sync_loop(p_advance(ps))

synchronize(ps) == sync_loop(p_advance(ps))

UnaryOps == {"Bang", "Minus"}

MisplacedBinaryOps ==
  {"EqualEqual", "BangEqual", "Plus", "Minus", "LessEqual", "Less", "GreaterEqual",
   "Greater", "Star", "Slash"}

\* the operator tokens of each level that match_two_operand is called for
Matchees(level) ==
  CASE level = "comma"          -> {"Comma"}
    [] level = "logic_or"       -> {"Or"}
    [] level = "logic_and"      -> {"And"}
    [] level = "equality"       -> {"BangEqual", "EqualEqual"}
    [] level = "comparison"     -> {"Less", "LessEqual", "Greater", "GreaterEqual"}
    [] level = "addition"       -> {"Plus", "Minus"}
    [] level = "multiplication" -> {"Star", "Slash"}

\* the combinator each level passes: Expr::Logical for and/or, Expr::Binary otherwise
Combinator(level, l, op, r) ==
  IF level \in {"logic_or", "logic_and"} THEN ELogical(l, op, r) ELSE EBinary(l, op, r)

\* `let x = ...;` and `let x = ...?;` (Err returned at once) in front of the rest F
Let(x, F(_)) == F(x)

Then(r, F(_)) == IF r.ok THEN F(r) ELSE r

RECURSIVE declaration(_), var_declaration(_), statement(_), for_statement(_),
          while_statement(_), if_statement(_), block(_), block_body(_, _),
          print_statement(_), expression_statement(_), break_statement(_),
          expression(_), assignment(_), ternary(_), unary(_), call(_), call_loop(_, _),
          finish_call(_, _), args_loop(_, _), primary(_), higher_precedence(_, _),
          match_two_operand(_, _), two_operand_loop(_, _, _), parse_loop(_, _)

comma(ps)          == match_two_operand("comma", ps)
logic_or(ps)       == match_two_operand("logic_or", ps)
logic_and(ps)      == match_two_operand("logic_and", ps)
equality(ps)       == match_two_operand("equality", ps)
comparison(ps)     == match_two_operand("comparison", ps)
addition(ps)       == match_two_operand("addition", ps)
multiplication(ps) == match_two_operand("multiplication", ps)

\* the closure each level passes as higher_precedence
higher_precedence(level, ps) ==
  CASE level = "comma"          -> ternary(ps)
    [] level = "logic_or"       -> logic_and(ps)
    [] level = "logic_and"      -> equality(ps)
    [] level = "equality"       -> comparison(ps)
    [] level = "comparison"     -> addition(ps)
    [] level = "addition"       -> multiplication(ps)
    [] level = "multiplication" -> unary(ps)

\* the loop `while self.curr_match(&matchees)` of match_two_operand
two_operand_loop(level, expr, ps) ==
  Let(curr_match(ps, Matchees(level)), LAMBDA m:
    IF ~m.m THEN POk(expr, ps)
    ELSE Let(previous(m.ps), LAMBDA op:
         Then(higher_precedence(level, op.ps), LAMBDA right:
           two_operand_loop(level, Combinator(level, expr, op.tk, right.v), right.ps))))

match_two_operand(level, ps) ==
  Then(higher_precedence(level, ps), LAMBDA first:
    two_operand_loop(level, first.v, first.ps))

primary(ps) ==
  IF check(ps, "Literal")
  THEN Let(previous(p_advance(ps)), LAMBDA p: POk(ELiteral(p.tk.literal), p.ps))
  ELSE IF check(ps, "Identifier")
  THEN Let(previous(p_advance(ps)), LAMBDA p: POk(EVar(p.tk), p.ps))
  ELSE IF check(ps, "LeftParen")
  THEN Then(expression(p_advance(ps)), LAMBDA e:
       Then(consume(e.ps, "RightParen", "Expected ')' after expr"), LAMBDA c:
         POk(EGrouping(e.v), c.ps)))
  ELSE IF ps.tokens = <<>> THEN PPanic(ps)
  ELSE PErr(p_error(ps, peek(ps), "Unexpected token"))

\* the loop of finish_call that collects the arguments
args_loop(args, ps) ==
  IF Len(args) >= 8 /\ ps.tokens = <<>> THEN PPanic(ps)
  ELSE Then(expression(IF Len(args) >= 8
                       THEN p_error(ps, peek(ps), "Cannot have more than 8 arguments.")
                       ELSE ps), LAMBDA e:
       Let(curr_match(e.ps, {"Comma"}), LAMBDA m:
         IF m.m THEN args_loop(Append(args, e.v), m.ps)
         ELSE POk(Append(args, e.v), m.ps)))

finish_call(expr, ps) ==
  Then(IF check(ps, "RightParen") THEN POk(<<>>, ps) ELSE args_loop(<<>>, ps), LAMBDA as:
  Then(consume(as.ps, "RightParen", "Expected ')' after arguments."), LAMBDA c:
    POk(ECall(expr, c.v, as.v), c.ps)))

\* the loop of call; its `expr = self.finish_call(expr)` is read with the `?` it lacks
call_loop(expr, ps) ==
  IF ~check(ps, "LeftParen") THEN POk(expr, ps)
  ELSE Then(finish_call(expr, p_advance(ps)), LAMBDA f: call_loop(f.v, f.ps))

call(ps) == Then(primary(ps), LAMBDA e: call_loop(e.v, e.ps))

unary(ps) ==
  IF \E ty \in UnaryOps : check(ps, ty)
  THEN Let(previous(p_advance(ps)), LAMBDA op:
       Then(unary(op.ps), LAMBDA right: POk(EUnary(op.tk, right.v), right.ps)))
  ELSE IF \E ty \in MisplacedBinaryOps : check(ps, ty)
  THEN Let(previous(p_advance(ps)), LAMBDA op:
         unary(p_error(op.ps, op.tk, "Expression expected before binary operator")))
  ELSE call(ps)

ternary(ps) ==
  Then(logic_or(ps), LAMBDA left:
    IF ~check(left.ps, "QuestionMark") THEN left
    ELSE Let(previous(p_advance(left.ps)), LAMBDA tk:
         Then(logic_or(tk.ps), LAMBDA t_cond:
         Then(consume(t_cond.ps, "Colon", "Expected to find ':' after expr"), LAMBDA c:
         Then(logic_or(c.ps), LAMBDA f_cond:
           POk(ETernary(tk.tk, left.v, t_cond.v, f_cond.v), f_cond.ps))))))

assignment(ps) ==
  Then(comma(ps), LAMBDA expr:
    IF ~check(expr.ps, "Equal") THEN expr
    ELSE Let(previous(p_advance(expr.ps)), LAMBDA equals:
         Then(assignment(equals.ps), LAMBDA value:
           IF expr.v.k = "Var" THEN POk(EAssignment(expr.v.name, value.v), value.ps)
           ELSE POk(expr.v, p_error(value.ps, equals.tk, "Invalid assignment target.")))))

expression(ps) == assignment(ps)

expression_statement(ps) ==
  Then(expression(ps), LAMBDA value:
  Then(consume(value.ps, "Semicolon", "Expected ';' after value"), LAMBDA c:
    POk(SExpr(value.v), c.ps)))

print_statement(ps) ==
  Then(expression(ps), LAMBDA value:
  Then(consume(value.ps, "Semicolon", "Expected ';' after value"), LAMBDA c:
    POk(SPrint(value.v), c.ps)))

\* the loop of block, then the closing brace
block_body(statements, ps) ==
  IF ~check(ps, "RightBrace") /\ ~p_is_at_end(ps)
  THEN Then(declaration(ps), LAMBDA d: block_body(Append(statements, d.v), d.ps))
  ELSE Then(consume(ps, "RightBrace", "Expected '}' ater block."), LAMBDA c:
         POk(SBlock(statements), c.ps))

block(ps) == block_body(<<>>, ps)

if_statement(ps) ==
  Then(consume(ps, "LeftParen", "Expected '(' after if"), LAMBDA lp:
  Then(expression(lp.ps), LAMBDA cond:
  Then(consume(cond.ps, "RightParen", "Expected ')' after condition"), LAMBDA rp:
  Then(statement(rp.ps), LAMBDA then:
    IF ~check(then.ps, "Else") THEN POk(SIf(cond.v, then.v, NoStmt), then.ps)
    ELSE Then(statement(p_advance(then.ps)), LAMBDA otherwise:
           POk(SIf(cond.v, then.v, otherwise.v), otherwise.ps))))))

while_statement(ps) ==
  Then(consume(ps, "LeftParen", "Expected '(' after while"), LAMBDA lp:
  Then(expression(lp.ps), LAMBDA cond:
  Then(consume(cond.ps, "RightParen", "Expected ')' after condition"), LAMBDA rp:
  Then(statement(rp.ps), LAMBDA then:
    POk(SWhile(cond.v, then.v), then.ps)))))

break_statement(ps) ==
  Let(previous(ps), LAMBDA p:
  Then(consume(p.ps, "Semicolon", "Expected ';' after break."), LAMBDA c:
    POk(SBreak(p.tk.line), c.ps)))

\* the clauses of for_statement, each [ok, v, ps] with v NoStmt / NoExpr for None
for_init(ps) ==
  IF check(ps, "Semicolon") THEN POk(NoStmt, p_advance(ps))
  ELSE IF check(ps, "Var") THEN var_declaration(p_advance(ps))
  ELSE expression_statement(ps)

for_clause(ps, closing) ==
  IF ~check(ps, closing) THEN expression(ps) ELSE POk(NoExpr, ps)

\* a desugaring that runs the increment before the body: what for_desugar must differ from
for_desugar_increment_first(init, cond, increment, body) ==
  Let(SWhile(IF cond.k # "None" THEN cond ELSE ELiteral(Boolean(TRUE)),
             IF increment.k # "None" THEN SBlock(<<SExpr(increment), body>>) ELSE body),
      LAMBDA wstmt: IF init.s # "None" THEN SBlock(<<init, wstmt>>) ELSE wstmt)

\* the desugaring of for_statement (parser.rs 92-109)
for_desugar(init, cond, increment, body) ==
  Let(SWhile(IF cond.k # "None" THEN cond ELSE ELiteral(Boolean(TRUE)),
             IF increment.k # "None" THEN SBlock(<<body, SExpr(increment)>>) ELSE body),
      LAMBDA wstmt: IF init.s # "None" THEN SBlock(<<init, wstmt>>) ELSE wstmt)

for_statement(ps) ==
  Then(consume(ps, "LeftParen", "Expected '(' after 'for'."), LAMBDA lp:
  Then(for_init(lp.ps), LAMBDA init:
  Then(for_clause(init.ps, "Semicolon"), LAMBDA cond:
  Then(consume(cond.ps, "Semicolon", "Expected ';' after loop condition"), LAMBDA semi:
  Then(for_clause(semi.ps, "RightParen"), LAMBDA increment:
  Then(consume(increment.ps, "RightParen", "Expected ')' after for clauses."), LAMBDA rp:
  Then(statement(rp.ps), LAMBDA body:
    POk(for_desugar(init.v, cond.v, increment.v, body.v), body.ps))))))))

statement(ps) ==
  IF check(ps, "Print") THEN print_statement(p_advance(ps))
  ELSE IF check(ps, "LeftBrace") THEN block(p_advance(ps))
  ELSE IF check(ps, "If") THEN if_statement(p_advance(ps))
  ELSE IF check(ps, "While") THEN while_statement(p_advance(ps))
  ELSE IF check(ps, "For") THEN for_statement(p_advance(ps))
  ELSE IF check(ps, "Break") THEN break_statement(p_advance(ps))
  ELSE expression_statement(ps)

var_declaration(ps) ==
  Then(consume(ps, "Identifier", "Expected variable name."), LAMBDA name:
  Then(IF check(name.ps, "Equal") THEN expression(p_advance(name.ps)) ELSE POk(NoExpr, name.ps),
       LAMBDA init:
  Then(consume(init.ps, "Semicolon", "Expected ';' after the variable declaration"), LAMBDA c:
    POk(SVar(name.v, init.v), c.ps))))

declaration(ps) ==
  Let(IF check(ps, "Var") THEN var_declaration(p_advance(ps)) ELSE statement(ps), LAMBDA res:
    IF ~res.ok /\ ~res.ps.panic THEN PErr(synchronize(res.ps)) ELSE res)

\* the loop of parse: Err as soon as one declaration is Err
parse_loop(ss, ps) ==
  IF ps.tokens = <<>> THEN POk(ss, ps)
  ELSE IF check(ps, "Eof") THEN POk(ss, p_advance(ps))
  ELSE Then(declaration(ps), LAMBDA d: parse_loop(Append(ss, d.v), d.ps))

\* Parser::new(tokens, err_rep).parse()
parse(tks, ds) ==
  parse_loop(<<>>, [tokens |-> tks, previous |-> NoToken, diags |-> ds, panic |-> FALSE])

(***************************************************************************)
(* Static context check (context.rs).  A visit is Result<(), ContextError>:*)
(* [ok, line], line the payload of BreakOutsideLoop.                       *)
(***************************************************************************)
CtxOk == [ok |-> TRUE, line |-> 0]

BreakOutsideLoop(ln) == [ok |-> FALSE, line |-> ln]

ctx_visit_break(inside_loop, ln) == IF inside_loop THEN CtxOk ELSE BreakOutsideLoop(ln)

RECURSIVE ctx_accept(_, _), ctx_visit_block_stmt(_, _, _)

\* then.accept(self.clone())?; then the else branch
ctx_visit_if(inside_loop, then, otherwise) ==
  LET t == ctx_accept(then, inside_loop)
  IN  IF ~t.ok THEN t
      ELSE IF otherwise.s # "None" THEN ctx_accept(otherwise, inside_loop) ELSE CtxOk

\* self.inside_loop = true; body.accept(self)
ctx_visit_while(inside_loop, body) == ctx_accept(body, TRUE)

\* for stmt in stmts.iter() { stmt.accept(self.clone())?; }, from index i on
ctx_visit_block_stmt(inside_loop, ss, i) ==
  IF i > Len(ss) THEN CtxOk
  ELSE LET r == ctx_accept(ss[i], inside_loop)
       IN  IF ~r.ok THEN r ELSE ctx_visit_block_stmt(inside_loop, ss, i + 1)

\* Stmt::accept with a ContextCheck visitor
ctx_accept(stmt, inside_loop) ==
  CASE stmt.s = "Break" -> ctx_visit_break(inside_loop, stmt.line)
    [] stmt.s = "While" -> ctx_visit_while(inside_loop, stmt.body)
    [] stmt.s = "If"    -> ctx_visit_if(inside_loop, stmt.then, stmt.otherwise)
    [] stmt.s = "Block" -> ctx_visit_block_stmt(inside_loop, stmt.stmts, 1)
    [] OTHER            -> CtxOk

\* check: filter_map over the top-level statements, each with ContextCheck::new(false)
RECURSIVE check_from(_, _)
check_from(ss, i) ==
  IF i > Len(ss) THEN <<>>
  ELSE LET r == ctx_accept(ss[i], FALSE)
       IN  (IF r.ok THEN <<>> ELSE <<r>>) \o check_from(ss, i + 1)

context_check(ss) == check_from(ss, 1)

\* ContextError::report for each error, in order (lib.rs 50-52)
RECURSIVE report_context_errors(_, _)
report_context_errors(ds, errs) ==
  IF errs = <<>> THEN ds
  ELSE report_context_errors(error(ds, Head(errs).line, "Break found outside of loop body."),
                             Tail(errs))

(***************************************************************************)
(* Scope chain (environment.rs).  An Environment is a function from the    *)
(* declared names to Option<Literal> (NoLiteral: declared, no value); the  *)
(* Stack is [envs, current], envs the enclosing scopes, outermost first.   *)
(***************************************************************************)
NewEnvironment == [x \in {} |-> NoLiteral]

NewStack == [envs |-> <<>>, current |-> NewEnvironment]

push_new(st) == [envs |-> Append(st.envs, st.current), current |-> NewEnvironment]

\* restore_old: envs.pop().unwrap(); only called when envs is not empty (see CanRestore)
restore_old(st) ==
  [envs |-> SubSeq(st.envs, 1, Len(st.envs) - 1), current |-> st.envs[Len(st.envs)]]

CanRestore(st) == st.envs # <<>>

env_define(e, name, value) == (name :> value) @@ e

\* a declaration written into the enclosing scope: what define must differ from
define_enclosing(st, name, value) ==
  IF st.envs = <<>> THEN [st EXCEPT !.current = env_define(@, name, value)]
  ELSE [st EXCEPT !.envs[Len(st.envs)] = env_define(@, name, value)]

define(st, name, value) == [st EXCEPT !.current = env_define(@, name, value)]

NoMsg == [err |-> "", lexeme |-> <<>>, line |-> 0]

\* InterpreterError::new(tk, err)
InterpreterError(tk, err) == [err |-> err, lexeme |-> tk.lexeme, line |-> tk.line]

\* the index in envs of the innermost enclosing scope that declares name, 0 if none
RECURSIVE FindScope(_, _, _)
FindScope(envs, i, name) ==
  IF i = 0 THEN 0
  ELSE IF name \in DOMAIN envs[i] THEN i
  ELSE FindScope(envs, i - 1, name)

\* an assignment that declares the name when no scope does: what assign must differ from
assign_or_define(st, name, value) ==
  IF name.lexeme \in DOMAIN st.current \/ FindScope(st.envs, Len(st.envs), name.lexeme) = 0
  THEN [ok |-> TRUE, st |-> [st EXCEPT !.current = env_define(@, name.lexeme, value)]]
  ELSE [ok |-> TRUE,
        st |-> [st EXCEPT !.envs[FindScope(st.envs, Len(st.envs), name.lexeme)] =
                            env_define(@, name.lexeme, value)]]

\* Stack::assign: [ok, st]
assign(st, name, value) ==
  IF name.lexeme \in DOMAIN st.current
  THEN [ok |-> TRUE, st |-> [st EXCEPT !.current = env_define(@, name.lexeme, value)]]
  ELSE LET i == FindScope(st.envs, Len(st.envs), name.lexeme)
       IN  IF i # 0
           THEN [ok |-> TRUE, st |-> [st EXCEPT !.envs[i] = env_define(@, name.lexeme, value)]]
           ELSE [ok |-> FALSE, st |-> st]

\* a lookup that takes the outermost declaring scope instead: what get_helper must differ from
get_helper_outermost(st, tk) ==
  LET D == {i \in 1..Len(st.envs) : tk.lexeme \in DOMAIN st.envs[i]}
  IN  IF D # {} THEN [ok |-> TRUE, v |-> st.envs[CHOOSE i \in D : \A j \in D : i <= j][tk.lexeme]]
      ELSE IF tk.lexeme \in DOMAIN st.current THEN [ok |-> TRUE, v |-> st.current[tk.lexeme]]
      ELSE [ok |-> FALSE, v |-> NoLiteral]

\* Stack::get_helper: [ok, v], v the Option<Literal> found
get_helper(st, tk) ==
  IF tk.lexeme \in DOMAIN st.current THEN [ok |-> TRUE, v |-> st.current[tk.lexeme]]
  ELSE LET i == FindScope(st.envs, Len(st.envs), tk.lexeme)
       IN  IF i # 0 THEN [ok |-> TRUE, v |-> st.envs[i][tk.lexeme]]
           ELSE [ok |-> FALSE, v |-> NoLiteral]

\* Stack::get: [ok, v, err]
get(st, tk) ==
  LET lt == get_helper(st, tk)
  IN  IF ~lt.ok THEN [ok |-> FALSE, v |-> NoLiteral, err |-> "Undefined variable"]
      ELSE IF lt.v.k = "None"
      THEN [ok |-> FALSE, v |-> NoLiteral, err |-> "Uninitialized variable"]
      ELSE [ok |-> TRUE, v |-> lt.v, err |-> ""]

(***************************************************************************)
(* Display form of a value: Literal::to_string (tokens.rs 98-107).  f64's  *)
(* Display writes an integral value without a fraction and a fraction with *)
(* its decimal digits (at most MaxFracDigits of them are produced here).   *)
(***************************************************************************)
MaxFracDigits == 17

DigitChar(d) ==
  CASE d = 0 -> "0" [] d = 1 -> "1" [] d = 2 -> "2" [] d = 3 -> "3" [] d = 4 -> "4"
    [] d = 5 -> "5" [] d = 6 -> "6" [] d = 7 -> "7" [] d = 8 -> "8" [] d = 9 -> "9"

RECURSIVE NatToString(_)
NatToString(n) ==
  IF n < 10 THEN <<DigitChar(n)>> ELSE Append(NatToString(n \div 10), DigitChar(n % 10))

RECURSIVE FracToString(_, _, _)
FracToString(r, d, left) ==
  IF r = 0 \/ left = 0 THEN <<>>
  ELSE <<DigitChar((r * 10) \div d)>> \o FracToString((r * 10) % d, d, left - 1)

number_to_string(x) ==
  LET a == Abs(x.n)
  IN  (IF x.n < 0 THEN <<"-">> ELSE <<>>)
        \o NatToString(a \div x.d)
        \o (IF a % x.d = 0 THEN <<>> ELSE <<".">> \o FracToString(a % x.d, x.d, MaxFracDigits))

to_string(lit) ==
  CASE lit.k = "Number"  -> number_to_string(lit)
    [] lit.k = "String"  -> lit.s
    [] lit.k = "Boolean" -> IF lit.b THEN <<"t", "r", "u", "e">> ELSE <<"f", "a", "l", "s", "e">>
    [] lit.k = "Nil"     -> <<"n", "i", "l">>

(***************************************************************************)
(* Expression evaluation (interpreter.rs 138-307).  evaluate maps an       *)
(* expression and the Stack to [r, v, env, msg]: r is "Ok" (v the value),  *)
(* "Err" (msg the InterpreterError) or "Panic" (unreachable!() was run, or *)
(* the body that functions.rs leaves out was called); env is the Stack the *)
(* evaluation leaves.                                                      *)
(***************************************************************************)
EOk(v, st) == [r |-> "Ok", v |-> v, env |-> st, msg |-> NoMsg]

EErr(msg, st) == [r |-> "Err", v |-> NoLiteral, env |-> st, msg |-> msg]

EPanic(st) == [r |-> "Panic", v |-> NoLiteral, env |-> st, msg |-> NoMsg]

is_truthy(ltl) ==
  CASE ltl.k = "Nil"     -> FALSE
    [] ltl.k = "Boolean" -> ltl.b
    [] OTHER             -> TRUE

is_equal(f, s) ==
  CASE f.k = "Number"  -> s.k = "Number" /\ f.n = s.n /\ f.d = s.d
    [] f.k = "Boolean" -> s.k = "Boolean" /\ f.b = s.b
    [] f.k = "String"  -> s.k = "String" /\ f.s = s.s
    [] f.k = "Nil"     -> s.k = "Nil"

\* unpack_number(ltl, tk).is_ok()
is_number(ltl) == ltl.k = "Number"

\* a coercion that takes the display form of every value: what unpack_into_string must
\* differ from
unpack_display(ltl) == [ok |-> TRUE, s |-> to_string(ltl)]

\* unpack_into_string(ltl, tk): [ok, s]
unpack_into_string(ltl) ==
  CASE ltl.k = "String" -> [ok |-> TRUE, s |-> ltl.s]
    [] ltl.k = "Number" -> [ok |-> TRUE, s |-> number_to_string(ltl)]
    [] OTHER            -> [ok |-> FALSE, s |-> <<>>]

Less(a, b) == a.n * b.d < b.n * a.d

\* arithmetic with 0 as the quotient by 0: what arithmetic must differ from
arithmetic_zero_quotient(op, l, r, st) ==
  CASE op.t_type = "Minus" -> EOk(Number(l.n * r.d - r.n * l.d, l.d * r.d), st)
    [] op.t_type = "Slash" ->
         IF r.n = 0 THEN EOk(Number(0, 1), st)
         ELSE EOk(Number((IF r.n < 0 THEN -1 ELSE 1) * l.n * r.d, l.d * Abs(r.n)), st)
    [] op.t_type = "Star"         -> EOk(Number(l.n * r.n, l.d * r.d), st)
    [] op.t_type = "Greater"      -> EOk(Boolean(Less(r, l)), st)
    [] op.t_type = "GreaterEqual" -> EOk(Boolean(~Less(l, r)), st)
    [] op.t_type = "Less"         -> EOk(Boolean(Less(l, r)), st)
    [] op.t_type = "LessEqual"    -> EOk(Boolean(~Less(r, l)), st)

\* the arms of visit_binary for two Numbers (interpreter.rs 216-229)
arithmetic(op, l, r, st) ==
  CASE op.t_type = "Minus" -> EOk(Number(l.n * r.d - r.n * l.d, l.d * r.d), st)
    [] op.t_type = "Slash" ->
         IF r.n = 0 THEN EErr(InterpreterError(op, "Division by zero"), st)
         ELSE EOk(Number((IF r.n < 0 THEN -1 ELSE 1) * l.n * r.d, l.d * Abs(r.n)), st)
    [] op.t_type = "Star"         -> EOk(Number(l.n * r.n, l.d * r.d), st)
    [] op.t_type = "Greater"      -> EOk(Boolean(Less(r, l)), st)
    [] op.t_type = "GreaterEqual" -> EOk(Boolean(~Less(l, r)), st)
    [] op.t_type = "Less"         -> EOk(Boolean(Less(l, r)), st)
    [] op.t_type = "LessEqual"    -> EOk(Boolean(~Less(r, l)), st)

\* visit_binary once both operands are evaluated (interpreter.rs 211-246)
binary_op(op, l, r, st) ==
  CASE op.t_type \in {"Minus", "Slash", "Star", "Greater", "GreaterEqual", "LessEqual", "Less"} ->
         IF ~is_number(l) \/ ~is_number(r) THEN EErr(InterpreterError(op, "Expected number"), st)
         ELSE arithmetic(op, l, r, st)
    [] op.t_type = "Plus" ->
         IF is_number(l) /\ is_number(r) THEN EOk(Number(l.n * r.d + r.n * l.d, l.d * r.d), st)
         ELSE LET sl == unpack_into_string(l)
                  sr == unpack_into_string(r)
              IN  IF ~sl.ok \/ ~sr.ok
                  THEN EErr(InterpreterError(op, "Expected value that can be a String"), st)
                  ELSE EOk(String(sl.s \o sr.s), st)
    [] op.t_type = "EqualEqual" -> EOk(Boolean(is_equal(l, r)), st)
    [] op.t_type = "BangEqual"  -> EOk(Boolean(~is_equal(l, r)), st)
    [] OTHER -> EPanic(st)

\* visit_unary once the operand is evaluated
unary_op(op, right, st) ==
  CASE op.t_type = "Minus" ->
         IF ~is_number(right) THEN EErr(InterpreterError(op, "Expected number"), st)
         ELSE EOk(Number(-right.n, right.d), st)
    [] op.t_type = "Bang" -> EOk(Boolean(~is_truthy(right)), st)
    [] OTHER -> EPanic(st)

RECURSIVE evaluate(_, _), evaluate_args(_, _, _)

visit_binary(left, op, right, st) ==
  LET l == evaluate(left, st)
  IN  IF l.r # "Ok" THEN l
      ELSE LET r == evaluate(right, l.env)
           IN  IF r.r # "Ok" THEN r ELSE binary_op(op, l.v, r.v, r.env)

visit_unary(op, exp, st) ==
  LET right == evaluate(exp, st)
  IN  IF right.r # "Ok" THEN right ELSE unary_op(op, right.v, right.env)

\* a visit_logical that evaluates both operands before it looks at the left one: what
\* visit_logical must differ from
visit_logical_eager(left, op, right, st) ==
  LET l == evaluate(left, st)
  IN  IF l.r # "Ok" THEN l
      ELSE LET r == evaluate(right, l.env)
           IN  IF r.r # "Ok" THEN r
               ELSE IF op.t_type = "Or" /\ is_truthy(l.v) THEN EOk(l.v, r.env)
               ELSE IF op.t_type # "Or" /\ ~is_truthy(l.v) THEN EOk(l.v, r.env)
               ELSE r

visit_logical(left, op, right, st) ==
  LET l == evaluate(left, st)
  IN  IF l.r # "Ok" THEN l
      ELSE IF op.t_type = "Or" /\ is_truthy(l.v) THEN l
      ELSE IF op.t_type # "Or" /\ ~is_truthy(l.v) THEN l
      ELSE evaluate(right, l.env)

visit_ternary(left, middle, right, st) ==
  LET l == evaluate(left, st)
  IN  IF l.r # "Ok" THEN l
      ELSE IF is_truthy(l.v) THEN evaluate(middle, l.env) ELSE evaluate(right, l.env)

visit_variable_expr(name, st) ==
  LET g == get(st, name)
  IN  IF g.ok THEN EOk(g.v, st) ELSE EErr(InterpreterError(name, g.err), st)

visit_assignment(name, value, st) ==
  LET v == evaluate(value, st)
  IN  IF v.r # "Ok" THEN v
      ELSE LET a == assign(v.env, name, v.v)
           IN  IF a.ok THEN EOk(v.v, a.st)
               ELSE EErr(InterpreterError(name, " Undefined variable"), a.st)

\* args.into_iter().map(|x| self.evaluate(x)).collect::<Result<Vec<_>>>(), from index i on
evaluate_args(args, i, st) ==
  IF i > Len(args) THEN EOk(NoLiteral, st)
  ELSE LET a == evaluate(args[i], st)
       IN  IF a.r # "Ok" THEN a ELSE evaluate_args(args, i + 1, a.env)

\* visit_call: Callable::from and Callable::call have no body in functions.rs
visit_call(callee, args, st) ==
  LET c == evaluate(callee, st)
  IN  IF c.r # "Ok" THEN c
      ELSE LET as == evaluate_args(args, 1, c.env)
           IN  IF as.r = "Panic" THEN as ELSE EPanic(as.env)

\* Expr::accept with the Interpreter as visitor
evaluate(expr, st) ==
  CASE expr.k = "Binary"     -> visit_binary(expr.l, expr.op, expr.r, st)
    [] expr.k = "Grouping"   -> evaluate(expr.e, st)
    [] expr.k = "Literal"    -> EOk(expr.lit, st)
    [] expr.k = "Unary"      -> visit_unary(expr.op, expr.e, st)
    [] expr.k = "Ternary"    -> visit_ternary(expr.c, expr.t, expr.f, st)
    [] expr.k = "Var"        -> visit_variable_expr(expr.name, st)
    [] expr.k = "Assignment" -> visit_assignment(expr.name, expr.value, st)
    [] expr.k = "Logical"    -> visit_logical(expr.l, expr.op, expr.r, st)
    [] expr.k = "Call"       -> visit_call(expr.callee, expr.args, st)

(***************************************************************************)
(* Statement execution (interpreter.rs 64-135, 309-319).  The evaluator is *)
(* a machine over                                                          *)
(*   frames  the active calls that wait for a statement's result:          *)
(*           [f |-> "interpret" | "block", stmts, i] (i the next index) or *)
(*           [f |-> "while", cond, body]; visit_if returns its branch's    *)
(*           result unchanged and keeps no frame;                          *)
(*   cur     [m |-> "execute", stmt]: execute(stmt) is being called, or    *)
(*           [m |-> "result", res]: res is returned to the innermost frame *)
(*           (res Ok right after a frame was pushed: its loop starts).     *)
(* A statement's result is Result<(), RuntimeError>: r is "Ok", "Break"    *)
(* (BreakSentinel) or "Err" (InterpreterError, in msg).                    *)
(* A step maps the machine to [env, frames, cur, output, panic].           *)
(***************************************************************************)
ROk == [r |-> "Ok", msg |-> NoMsg]

BreakSentinel == [r |-> "Break", msg |-> NoMsg]

RErr(msg) == [r |-> "Err", msg |-> msg]

NoResult == [r |-> "None", msg |-> NoMsg]

CurExecute(stmt) == [m |-> "execute", stmt |-> stmt, res |-> NoResult]

CurResult(res) == [m |-> "result", stmt |-> NoStmt, res |-> res]

CurIdle == [m |-> "idle", stmt |-> NoStmt, res |-> NoResult]

Machine(st, frs, c, out) ==
  [env |-> st, frames |-> frs, cur |-> c, output |-> out, panic |-> FALSE]

MachinePanic(st, frs, out) ==
  [env |-> st, frames |-> frs, cur |-> CurIdle, output |-> out, panic |-> TRUE]

Pop(frs) == SubSeq(frs, 1, Len(frs) - 1)

\* the result of an expression that did not evaluate to a value, returned with `?`
Propagate(e, frs, out) ==
  IF e.r = "Panic" THEN MachinePanic(e.env, frs, out)
  ELSE Machine(e.env, frs, CurResult(RErr(e.msg)), out)

visit_print(expr, st, frs, out) ==
  LET val == evaluate(expr, st)
  IN  IF val.r # "Ok" THEN Propagate(val, frs, out)
      ELSE Machine(val.env, frs, CurResult(ROk), Append(out, to_string(val.v)))

visit_break(st, frs, out) == Machine(st, frs, CurResult(BreakSentinel), out)

visit_expr_statement(expr, st, frs, out) ==
  LET val == evaluate(expr, st)
  IN  IF val.r # "Ok" THEN Propagate(val, frs, out)
      ELSE Machine(val.env, frs, CurResult(ROk), out)

visit_variable(name, init, st, frs, out) ==
  IF init.k = "None" THEN Machine(define(st, name.lexeme, NoLiteral), frs, CurResult(ROk), out)
  ELSE LET val == evaluate(init, st)
       IN  IF val.r # "Ok" THEN Propagate(val, frs, out)
           ELSE Machine(define(val.env, name.lexeme, val.v), frs, CurResult(ROk), out)

visit_if(cond, then, otherwise, st, frs, out) ==
  LET c == evaluate(cond, st)
  IN  IF c.r # "Ok" THEN Propagate(c, frs, out)
      ELSE IF is_truthy(c.v) THEN Machine(c.env, frs, CurExecute(then), out)
      ELSE IF otherwise.s # "None" THEN Machine(c.env, frs, CurExecute(otherwise), out)
      ELSE Machine(c.env, frs, CurResult(ROk), out)

\* visit_while is entered: its loop starts
visit_while(cond, then, st, frs, out) ==
  Machine(st, Append(frs, [f |-> "while", cond |-> cond, body |-> then]), CurResult(ROk), out)

\* a loop that ends normally when its body fails: what while_loop must differ from
while_loop_drops_error(top, res, st, frs, out) ==
  IF res.r # "Ok" THEN Machine(st, frs, CurResult(ROk), out)
  ELSE LET c == evaluate(top.cond, st)
       IN  IF c.r # "Ok" THEN Propagate(c, frs, out)
           ELSE IF is_truthy(c.v) THEN Machine(c.env, Append(frs, top), CurExecute(top.body), out)
           ELSE Machine(c.env, frs, CurResult(ROk), out)

\* a loop that hands BreakSentinel on to its caller: what while_loop must differ from
while_loop_keeps_break(top, res, st, frs, out) ==
  IF res.r # "Ok" THEN Machine(st, frs, CurResult(res), out)
  ELSE LET c == evaluate(top.cond, st)
       IN  IF c.r # "Ok" THEN Propagate(c, frs, out)
           ELSE IF is_truthy(c.v) THEN Machine(c.env, Append(frs, top), CurExecute(top.body), out)
           ELSE Machine(c.env, frs, CurResult(ROk), out)

\* visit_while's loop (interpreter.rs 76-85): res is what execute(then) returned (Ok when
\* the loop starts), frs the frames below the loop's own, top
while_loop(top, res, st, frs, out) ==
  IF res.r = "Break" THEN Machine(st, frs, CurResult(ROk), out)
  ELSE IF res.r = "Err" THEN Machine(st, frs, CurResult(res), out)
  ELSE LET c == evaluate(top.cond, st)
       IN  IF c.r # "Ok" THEN Propagate(c, frs, out)
           ELSE IF is_truthy(c.v) THEN Machine(c.env, Append(frs, top), CurExecute(top.body), out)
           ELSE Machine(c.env, frs, CurResult(ROk), out)

\* visit_block_stmt is entered: push_new, then its loop starts
visit_block_stmt(ss, st, frs, out) ==
  Machine(push_new(st), Append(frs, [f |-> "block", stmts |-> ss, i |-> 1]), CurResult(ROk), out)

\* a block that keeps its scope when a statement fails: what block_loop must differ from
block_loop_keeps_scope(top, res, st, frs, out) ==
  IF res.r # "Ok" THEN Machine(st, frs, CurResult(res), out)
  ELSE IF top.i <= Len(top.stmts)
  THEN Machine(st, Append(frs, [top EXCEPT !.i = @ + 1]), CurExecute(top.stmts[top.i]), out)
  ELSE IF CanRestore(st) THEN Machine(restore_old(st), frs, CurResult(ROk), out)
  ELSE MachinePanic(st, frs, out)

\* visit_block_stmt's loop (interpreter.rs 105-115)
block_loop(top, res, st, frs, out) ==
  IF res.r # "Ok"
  THEN IF CanRestore(st) THEN Machine(restore_old(st), frs, CurResult(res), out)
       ELSE MachinePanic(st, frs, out)
  ELSE IF top.i <= Len(top.stmts)
  THEN Machine(st, Append(frs, [top EXCEPT !.i = @ + 1]), CurExecute(top.stmts[top.i]), out)
  ELSE IF CanRestore(st) THEN Machine(restore_old(st), frs, CurResult(ROk), out)
  ELSE MachinePanic(st, frs, out)

\* an interpret that goes on with the next statement after an error: what interpret_loop
\* must differ from
interpret_loop_continues(top, res, st, frs, out) ==
  IF top.i <= Len(top.stmts)
  THEN Machine(st, Append(frs, [top EXCEPT !.i = @ + 1]), CurExecute(top.stmts[top.i]), out)
  ELSE Machine(st, frs, CurResult(res), out)

\* interpret's loop (interpreter.rs 314-318); with no frame left cur is interpret's result
interpret_loop(top, res, st, frs, out) ==
  IF res.r # "Ok" THEN Machine(st, frs, CurResult(res), out)
  ELSE IF top.i <= Len(top.stmts)
  THEN Machine(st, Append(frs, [top EXCEPT !.i = @ + 1]), CurExecute(top.stmts[top.i]), out)
  ELSE Machine(st, frs, CurResult(ROk), out)

\* Stmt::accept with the Interpreter as visitor (syntax.rs 29-41)
accept(stmt, st, frs, out) ==
  CASE stmt.s = "Print" -> visit_print(stmt.e, st, frs, out)
    [] stmt.s = "Expr"  -> visit_expr_statement(stmt.e, st, frs, out)
    [] stmt.s = "Var"   -> visit_variable(stmt.name, stmt.init, st, frs, out)
    [] stmt.s = "Block" -> visit_block_stmt(stmt.stmts, st, frs, out)
    [] stmt.s = "If"    -> visit_if(stmt.cond, stmt.then, stmt.otherwise, st, frs, out)
    [] stmt.s = "While" -> visit_while(stmt.cond, stmt.body, st, frs, out)
    [] stmt.s = "Break" -> visit_break(st, frs, out)

\* a result reaches the innermost frame
resume(top, res, st, frs, out) ==
  CASE top.f = "while"     -> while_loop(top, res, st, frs, out)
    [] top.f = "block"     -> block_loop(top, res, st, frs, out)
    [] top.f = "interpret" -> interpret_loop(top, res, st, frs, out)

\* RuntimeError::get_msg (interpreter.rs 44-49)
get_msg(res) ==
  IF res.r = "Break"
  THEN [err |-> "Break ran without encapsulating loop. Report this bug in the interpreter.",
        lexeme |-> <<>>, line |-> 0]
  ELSE res.msg

SetMachine(n) ==
  /\ env' = n.env
  /\ frames' = n.frames
  /\ output' = n.output
  /\ steps' = steps + 1
  /\ IF n.panic
     THEN pc' = "panic" /\ cur' = n.cur /\ result' = result
     ELSE IF n.frames = <<>>
     THEN pc' = "returned" /\ cur' = CurIdle /\ result' = n.cur.res
     ELSE pc' = pc /\ cur' = n.cur /\ result' = result

(***************************************************************************)
(* Actions                                                                 *)
(***************************************************************************)
\* run: parser.parse() (lib.rs 45-46)
Parse ==
  /\ pc = "parse"
  /\ LET r == parse(tokens, diags)
     IN  /\ stmts' = IF r.ok THEN r.v ELSE <<>>
         /\ parsed' = IF r.ok THEN "Ok" ELSE "Err"
         /\ diags' = r.ps.diags
         /\ had_error' = (had_error \/ r.ps.diags # diags)
         /\ pc' = IF r.ps.panic THEN "panic" ELSE "check"
  /\ UNCHANGED <<src, lexVars, ctx_errs, evalVars>>

\* run: context::check and the report of its errors (lib.rs 48-53)
Check ==
  /\ pc = "check"
  /\ LET errs == IF parsed = "Ok" THEN context_check(stmts) ELSE <<>>
     IN  /\ ctx_errs' = errs
         /\ diags' = report_context_errors(diags, errs)
         /\ had_error' = (had_error \/ errs # <<>>)
  /\ pc' = "decide"
  /\ UNCHANGED <<src, lexVars, stmts, parsed, evalVars>>

\* interpret called on every Ok(stmts), whatever was reported: what Interpret must differ from
Interpret_despite_errors ==
  /\ pc = "decide"
  /\ parsed = "Ok"
  /\ env' = NewStack
  /\ frames' = <<[f |-> "interpret", stmts |-> stmts, i |-> 1]>>
  /\ cur' = CurResult(ROk)
  /\ pc' = "interpret"
  /\ UNCHANGED <<src, lexVars, had_error, diags, stmts, parsed, ctx_errs, output, rt_msgs,
                 result, steps>>

\* run: the arm `Ok(ref stmts) if !err_hand.had_error`, interpret is called (lib.rs 55-57)
Interpret ==
  /\ pc = "decide"
  /\ parsed = "Ok" /\ ~had_error
  /\ env' = NewStack
  /\ frames' = <<[f |-> "interpret", stmts |-> stmts, i |-> 1]>>
  /\ cur' = CurResult(ROk)
  /\ pc' = "interpret"
  /\ UNCHANGED <<src, lexVars, had_error, diags, stmts, parsed, ctx_errs, output, rt_msgs,
                 result, steps>>

\* run: the arm `_`, run returns (lib.rs 62)
Skip ==
  /\ pc = "decide"
  /\ ~(parsed = "Ok" /\ ~had_error)
  /\ pc' = "done"
  /\ UNCHANGED <<src, lexVars, had_error, diags, stmts, parsed, ctx_errs, evalVars>>

\* execute(stmt): the statement's visit_* is run up to its first call of execute
Execute ==
  /\ pc = "interpret"
  /\ cur.m = "execute"
  /\ steps < MaxSteps
  /\ SetMachine(accept(cur.stmt, env, frames, output))
  /\ UNCHANGED <<src, lexVars, had_error, diags, stmts, parsed, ctx_errs, rt_msgs>>

\* a statement's result is returned into the loop of the call that waits for it
Return ==
  /\ pc = "interpret"
  /\ cur.m = "result"
  /\ steps < MaxSteps
  /\ SetMachine(resume(frames[Len(frames)], cur.res, env, Pop(frames), output))
  /\ UNCHANGED <<src, lexVars, had_error, diags, stmts, parsed, ctx_errs, rt_msgs>>

\* run: interpret has returned, its error is written (lib.rs 57-61)
Finish ==
  /\ pc = "returned"
  /\ rt_msgs' = IF result.r # "Ok" THEN Append(rt_msgs, get_msg(result)) ELSE rt_msgs
  /\ pc' = "done"
  /\ UNCHANGED <<src, lexVars, had_error, diags, stmts, parsed, ctx_errs, env, frames, cur,
                 output, result, steps>>

\* context::check called on a statement list
CheckCall ==
  /\ pc = "call_check"
  /\ ctx_errs' = context_check(stmts)
  /\ pc' = "call_interpret"
  /\ UNCHANGED <<src, lexVars, had_error, diags, stmts, parsed, evalVars>>

\* interpreter::interpret called on a statement list
InterpretCall ==
  /\ pc = "call_interpret"
  /\ env' = NewStack
  /\ frames' = <<[f |-> "interpret", stmts |-> stmts, i |-> 1]>>
  /\ cur' = CurResult(ROk)
  /\ pc' = "interpret"
  /\ UNCHANGED <<src, lexVars, had_error, diags, stmts, parsed, ctx_errs, output, rt_msgs,
                 result, steps>>

(***************************************************************************)
(* Inputs: the source texts run is called with                             *)
(***************************************************************************)
\* 1 + 2 * 3
SrcArith ==
  <<"1", " ", "+", " ", "2", " ", "*", " ", "3">>

\* print 1 + 2 * 3;
SrcArithStmt ==
  <<"p", "r", "i", "n", "t", " ", "1", " ", "+", " ", "2", " ", "*", " ",
    "3", ";">>

\* a = 1, 2;
SrcCommaAssign ==
  <<"a", " ", "=", " ", "1", ",", " ", "2", ";">>

\* print ; print ;
SrcTwoErrors ==
  <<"p", "r", "i", "n", "t", " ", ";", " ", "p", "r", "i", "n", "t", " ",
    ";">>

\* while (true) { break; }
SrcWhileBreak ==
  <<"w", "h", "i", "l", "e", " ", "(", "t", "r", "u", "e", ")", " ", "{",
    " ", "b", "r", "e", "a", "k", ";", " ", "}">>

\* var x; print x;
SrcUninit ==
  <<"v", "a", "r", " ", "x", ";", " ", "p", "r", "i", "n", "t", " ", "x",
    ";">>

\* var x; x = 1; print x;
SrcAssignPrint ==
  <<"v", "a", "r", " ", "x", ";", " ", "x", " ", "=", " ", "1", ";", " ",
    "p", "r", "i", "n", "t", " ", "x", ";">>

\* break;
SrcBareBreak ==
  <<"b", "r", "e", "a", "k", ";">>

\* print y;
SrcUndefined ==
  <<"p", "r", "i", "n", "t", " ", "y", ";">>

\* print 1; 1 = 2;
SrcBadTarget ==
  <<"p", "r", "i", "n", "t", " ", "1", ";", " ", "1", " ", "=", " ", "2",
    ";">>

\* var a = 1; { var a = 2; print a; } print a;
SrcShadow ==
  <<"v", "a", "r", " ", "a", " ", "=", " ", "1", ";", " ", "{", " ", "v",
    "a", "r", " ", "a", " ", "=", " ", "2", ";", " ", "p", "r", "i", "n",
    "t", " ", "a", ";", " ", "}", " ", "p", "r", "i", "n", "t", " ", "a",
    ";">>

\* print 1; @
SrcLexError ==
  <<"p", "r", "i", "n", "t", " ", "1", ";", " ", "@">>

\* print 1; print ;
SrcPrintThenError ==
  <<"p", "r", "i", "n", "t", " ", "1", ";", " ", "p", "r", "i", "n", "t",
    " ", ";">>

\* a ? b : c ? d : e;
SrcTernary ==
  <<"a", " ", "?", " ", "b", " ", ":", " ", "c", " ", "?", " ", "d", " ",
    ":", " ", "e", ";">>

\* f(1, 2);
SrcCall ==
  <<"f", "(", "1", ",", " ", "2", ")", ";">>

\* print 1; print y; print 2;
SrcErrorMidway ==
  <<"p", "r", "i", "n", "t", " ", "1", ";", " ", "p", "r", "i", "n", "t",
    " ", "y", ";", " ", "p", "r", "i", "n", "t", " ", "2", ";">>

\* for (var i = 0; i < 3; i = i + 1) print i;
SrcFor ==
  <<"f", "o", "r", " ", "(", "v", "a", "r", " ", "i", " ", "=", " ", "0",
    ";", " ", "i", " ", "<", " ", "3", ";", " ", "i", " ", "=", " ", "i",
    " ", "+", " ", "1", ")", " ", "p", "r", "i", "n", "t", " ", "i", ";">>

\* for (var i = 0; i < 1; i = i + 1) print i; print i;
SrcForThenRead ==
  <<"f", "o", "r", " ", "(", "v", "a", "r", " ", "i", " ", "=", " ", "0",
    ";", " ", "i", " ", "<", " ", "1", ";", " ", "i", " ", "=", " ", "i",
    " ", "+", " ", "1", ")", " ", "p", "r", "i", "n", "t", " ", "i", ";",
    " ", "p", "r", "i", "n", "t", " ", "i", ";">>

\* /* a /* b */ c */ 1;
SrcNestedComment ==
  <<"/", "*", " ", "a", " ", "/", "*", " ", "b", " ", "*", "/", " ", "c",
    " ", "*", "/", " ", "1", ";">>

\* /* a\n */ 1;
SrcCommentNewline ==
  <<"/", "*", " ", "a", "\n", " ", "*", "/", " ", "1", ";">>

\* print 1 / 2;
SrcHalf ==
  <<"p", "r", "i", "n", "t", " ", "1", " ", "/", " ", "2", ";">>

\* 1, 2;
SrcComma ==
  <<"1", ",", " ", "2", ";">>

Examples ==
  {SrcArith, SrcArithStmt, SrcCommaAssign, SrcTwoErrors,
   SrcWhileBreak, SrcUninit, SrcAssignPrint, SrcBareBreak,
   SrcUndefined, SrcBadTarget, SrcShadow, SrcLexError,
   SrcPrintThenError, SrcTernary, SrcCall, SrcErrorMidway, SrcFor,
   SrcForThenRead, SrcNestedComment, SrcCommentNewline, SrcHalf, SrcComma}

\* the characters of the generated source texts
LexAlphabet == {"1", ".", "/", "*", "\n", "a", "\"", "@"}

GeneratedSources == UNION {[1..n -> LexAlphabet] : n \in 0..MaxSrcLen}

Sources == Examples \cup GeneratedSources

(***************************************************************************)
(* Inputs: the statement lists context::check and interpreter::interpret   *)
(* are called with.  They are built from the simple statements below by    *)
(* Block (of at most MaxBlockLen statements), If and While, nested twice.  *)
(***************************************************************************)
MaxBlockLen == 2

TokX == Token("Identifier", <<"x">>, 1)

TokY == Token("Identifier", <<"y">>, 1)

TokEqualEqual == Token("EqualEqual", <<"=", "=">>, 1)

One == ELiteral(Number(1, 1))

Two == ELiteral(Number(2, 1))

Conditions == {ELiteral(Boolean(TRUE)), ELiteral(Boolean(FALSE)), EBinary(EVar(TokX), TokEqualEqual, One)}

SimpleStmts ==
  {SPrint(One), SPrint(EVar(TokX)), SVar(TokX, NoExpr), SVar(TokX, One),
   SExpr(EAssignment(TokX, Two)), SBreak(1)}

SeqsUpTo(S, n) == UNION {[1..m -> S] : m \in 0..n}

\* Block, If and While over the statements of S
Compound(S) ==
  {SBlock(ss) : ss \in SeqsUpTo(S, MaxBlockLen)}
    \cup {SIf(c, t, o) : c \in Conditions, t \in S, o \in S \cup {NoStmt}}
    \cup {SWhile(c, b) : c \in Conditions, b \in S}

\* a statement of Compound(SimpleStmts) as the only statement of a block or loop body,
\* or as the branch of an if
Nested(S) ==
  {SBlock(<<st>>) : st \in S}
    \cup {SIf(c, st, NoStmt) : c \in Conditions, st \in S}
    \cup {SWhile(c, st) : c \in Conditions, st \in S}

\* var x; x = 1; print x;
ProgAssignPrint == <<SVar(TokX, NoExpr), SExpr(EAssignment(TokX, One)), SPrint(EVar(TokX))>>

\* var y = 1; var x; { var y; x = 2; print x; }
ProgTwoNames ==
  <<SVar(TokY, One), SVar(TokX, NoExpr),
    SBlock(<<SVar(TokY, NoExpr), SExpr(EAssignment(TokX, Two)), SPrint(EVar(TokX))>>)>>

\* the operand values and the operator tokens of the binary expressions that are evaluated
Values ==
  {Number(0, 1), Number(1, 1), Number(2, 1), String(<<"f", "o", "o">>), Boolean(TRUE), Nil}

TokPlus == Token("Plus", <<"+">>, 1)

NumericOps ==
  {Token("Minus", <<"-">>, 1), Token("Slash", <<"/">>, 1), Token("Star", <<"*">>, 1),
   Token("Greater", <<">">>, 1), Token("GreaterEqual", <<">", "=">>, 1),
   Token("Less", <<"<">>, 1), Token("LessEqual", <<"<", "=">>, 1)}

\* var x = a op b;
OpPrograms ==
  {<<SVar(TokX, EBinary(ELiteral(a), op, ELiteral(b)))>> :
     a \in Values, b \in Values, op \in NumericOps \cup {TokPlus}}

\* var x = 1; while (x == 1) { while (true) break; x = 2; print x; }
ProgNestedBreak ==
  <<SVar(TokX, One),
    SWhile(EBinary(EVar(TokX), TokEqualEqual, One),
           SBlock(<<SWhile(ELiteral(Boolean(TRUE)), SBreak(1)),
                    SExpr(EAssignment(TokX, Two)), SPrint(EVar(TokX))>>))>>


\* the left operands, the operator tokens and the right operands of the logical
\* expressions that are evaluated: the right operand assigns to y
LogicalLefts == Values \cup {Boolean(FALSE)}

LogicalOps == {Token("Or", <<"o", "r">>, 1), Token("And", <<"a", "n", "d">>, 1)}

AssignsToY ==
  {EAssignment(TokY, ELiteral(v)) : v \in LogicalLefts}
    \cup {EAssignment(TokY, EBinary(EVar(TokY), TokPlus, One))}

\* var y = 3; var x = a op (y = ...);
LogicalPrograms ==
  {<<SVar(TokY, ELiteral(Number(3, 1))), SVar(TokX, ELogical(ELiteral(a), op, r))>> :
     a \in LogicalLefts, op \in LogicalOps, r \in AssignsToY}
Programs ==
  LET C1 == Compound(SimpleStmts)
      C2 == Nested(C1)
  IN  {<<st>> : st \in SimpleStmts \cup C1 \cup C2}
        \cup {<<a, st>> : a \in SimpleStmts, st \in SimpleStmts \cup C1}
        \cup {<<st, a>> : st \in C1, a \in SimpleStmts}
        \cup OpPrograms
        \cup LogicalPrograms
        \cup {ProgAssignPrint, ProgTwoNames, ProgNestedBreak}

(***************************************************************************)
(* Specifications                                                          *)
(***************************************************************************)
InitEval ==
  /\ env = NewStack
  /\ frames = <<>>
  /\ cur = CurIdle
  /\ output = <<>>
  /\ rt_msgs = <<>>
  /\ result = NoResult
  /\ steps = 0

\* run(src) is called (lib.rs 40-44)
Init ==
  /\ src \in Sources
  /\ start = 0 /\ current = 0 /\ line = 1 /\ term = 0
  /\ tokens = <<>>
  /\ had_error = FALSE
  /\ diags = <<>>
  /\ pc = "scan"
  /\ stmts = <<>>
  /\ parsed = None
  /\ ctx_errs = <<>>
  /\ InitEval

\* a statement list is at hand: p is "call_check" (check, then interpret, are called on
\* it) or "check" (it is what parse returned to run)
InitStmts(p) ==
  /\ src = <<>>
  /\ start = 0 /\ current = 0 /\ line = 1 /\ term = 0
  /\ tokens = <<>>
  /\ had_error = FALSE
  /\ diags = <<>>
  /\ pc = p
  /\ stmts \in Programs
  /\ parsed = "Ok"
  /\ ctx_errs = <<>>
  /\ InitEval

Next ==
  \/ ScanToken
  \/ CommentStep
  \/ ScanEof
  \/ Parse
  \/ Check
  \/ Interpret
  \/ Skip
  \/ Execute
  \/ Return
  \/ Finish

NextAst ==
  \/ CheckCall
  \/ InterpretCall
  \/ Execute
  \/ Return

\* run on a source text
Spec == Init /\ [][Next]_vars

\* context::check and interpreter::interpret on a statement list
SpecAst == InitStmts("call_check") /\ [][NextAst]_vars

\* run on a source text, or run from the return of parse on with a statement list
SpecRun == (Init \/ InitStmts("check")) /\ [][Next]_vars

(***************************************************************************)
(* Properties of the scanner (run on a source text, Spec)                  *)
(***************************************************************************)
\* the token sequence ends with Eof and holds no other Eof
EofTerminated(tks) ==
  /\ tks # <<>>
  /\ tks[Len(tks)].t_type = "Eof"
  /\ \A i \in 1..(Len(tks) - 1) : tks[i].t_type # "Eof"

\* scan_tokens was left by a panic: parse was never called
ScannerPanicked == pc = "panic" /\ parsed = None

\* C1: scan_tokens always returns, and what it returns is a token sequence that ends with
\* Eof and holds no other Eof; a lexical error does not prevent this.  As a statement
\* about every state: the scanner is never left by a panic, and once scan_tokens is no
\* longer running the tokens are Eof-terminated.
C1_ScanReturnsEofTerminated ==
  /\ ~ScannerPanicked
  /\ pc \notin {"scan", "comment"} => EofTerminated(tokens)

\* a lexical error was reported and scan_tokens still returned Eof-terminated tokens
C1_ReturnedAfterLexError ==
  pc = "parse" /\ had_error /\ EofTerminated(tokens)

\* C2: a number literal is the longest run of digits with an optional fraction `.digits`,
\* also when its last digit is the last character of the source: the source text
\* `1 + 2 * 3` is scanned to Number(1), Plus, Number(2), Star, Number(3), Eof.
C2_ArithmeticTokens ==
  (src = SrcArith /\ pc # "scan") =>
    tokens = <<LiteralToken(Number(1, 1), <<"1">>, 1), Token("Plus", <<"+">>, 1),
               LiteralToken(Number(2, 1), <<"2">>, 1), Token("Star", <<"*">>, 1),
               LiteralToken(Number(3, 1), <<"3">>, 1), Token("Eof", <<>>, 1)>>

\* a number with a fraction, followed by more source text, was scanned as one literal
C2_FractionScanned ==
  /\ pc = "parse"
  /\ \E i \in 1..Len(tokens) :
       tokens[i].literal = Number(11, 10) /\ tokens[i].lexeme = <<"1", ".", "1">>

(***************************************************************************)
(* Properties of the parser (run on a source text, Spec)                   *)
(***************************************************************************)
\* C3: the comma operator has the lowest precedence: `a = 1, 2;` is parsed as the comma
\* expression whose left operand is the assignment a = 1 and whose right operand is 2.
C3_CommaLowest ==
  (src = SrcCommaAssign /\ pc \notin {"scan", "parse"}) =>
    /\ parsed = "Ok"
    /\ Len(stmts) = 1
    /\ stmts[1].s = "Expr"
    /\ stmts[1].e.k = "Binary"
    /\ stmts[1].e.op.t_type = "Comma"
    /\ stmts[1].e.l.k = "Assignment"
    /\ stmts[1].e.r = ELiteral(Number(2, 1))

\* C4: after a failed declaration the parser synchronizes and goes on with the next
\* declaration, so the two syntax errors of `print ; print ;` are both reported by the
\* one call of parse.
C4_BothErrorsReported ==
  (src = SrcTwoErrors /\ pc \notin {"scan", "parse"}) => Len(diags) = 2

\* C5: `while (true) { break; }` run through scanner, parser, checker and interpreter
\* ends with no diagnostic and no runtime error.
C5_WhileBreakRunsClean ==
  /\ src = SrcWhileBreak => pc # "panic"
  /\ (src = SrcWhileBreak /\ pc = "done") =>
       diags = <<>> /\ ~had_error /\ rt_msgs = <<>>

(***************************************************************************)
(* Properties of context::check and interpret on a statement list (SpecAst)*)
(***************************************************************************)
RECURSIVE MisplacedBreaks(_, _), MisplacedBreaksIn(_, _, _)
\* the number of Break statements of stmt that no While body encloses
MisplacedBreaks(stmt, in_loop) ==
  CASE stmt.s = "Break" -> IF in_loop THEN 0 ELSE 1
    [] stmt.s = "While" -> MisplacedBreaks(stmt.body, TRUE)
    [] stmt.s = "If"    -> MisplacedBreaks(stmt.then, in_loop)
                             + (IF stmt.otherwise.s # "None"
                                THEN MisplacedBreaks(stmt.otherwise, in_loop) ELSE 0)
    [] stmt.s = "Block" -> MisplacedBreaksIn(stmt.stmts, 1, in_loop)
    [] OTHER            -> 0

MisplacedBreaksIn(ss, i, in_loop) ==
  IF i > Len(ss) THEN 0
  ELSE MisplacedBreaks(ss[i], in_loop) + MisplacedBreaksIn(ss, i + 1, in_loop)

\* C6: check returns one BreakOutsideLoop for each Break statement that no While body
\* encloses, also when two of them are in the same top-level block or if statement.
C6_OneDiagnosticPerBreak ==
  pc # "call_check" => Len(ctx_errs) = MisplacedBreaksIn(stmts, 1, FALSE)

\* two misplaced breaks in two top-level statements gave two diagnostics
C6_TwoTopLevelBreaks ==
  pc # "call_check" /\ stmts = <<SBreak(1), SBreak(1)>> /\ Len(ctx_errs) = 2

\* C7: for a statement list on which check returns no diagnostic, interpret never
\* returns BreakSentinel.
C7_NoBreakSentinel ==
  (pc = "returned" /\ ctx_errs = <<>>) => result.r # "Break"

\* a loop that is only left by its break was accepted by check and has returned Ok
C7_BreakLeftLoop ==
  /\ pc = "returned"
  /\ stmts = <<SWhile(ELiteral(Boolean(TRUE)), SBreak(1))>>
  /\ ctx_errs = <<>>
  /\ result = ROk

\* the number of calls of visit_block_stmt that are active
RECURSIVE BlockFrames(_)
BlockFrames(frs) ==
  IF frs = <<>> THEN 0
  ELSE (IF frs[Len(frs)].f = "block" THEN 1 ELSE 0) + BlockFrames(Pop(frs))

\* C8: executing a statement leaves the depth of the scope chain unchanged: a Block
\* pushes one scope and pops exactly one on every exit (normal, break, runtime error),
\* so the depth is at any time the number of blocks being executed, and restore_old is
\* never called with no pushed scope.
C8_ScopeDepth ==
  /\ pc \in {"interpret", "returned"} => Len(env.envs) = BlockFrames(frames)
  /\ pc = "panic" => CanRestore(env)

\* a block was left by a runtime error or a break and interpret returned at depth 0
C8_BlockLeftByError ==
  /\ pc = "returned"
  /\ Len(stmts) = 1 /\ stmts[1].s = "Block"
  /\ result.r # "Ok"
  /\ env.envs = <<>>

(***************************************************************************)
(* Properties of run (SpecRun)                                             *)
(***************************************************************************)
\* C9: run executes no statement when the scanner, the parser or the checker reported
\* an error, and every diagnostic is reported before the first statement executes: in
\* any state in which interpret was called, no error and no diagnostic was reported.
C9_NoExecutionAfterError ==
  (pc \in {"interpret", "returned"} \/ steps > 0 \/ output # <<>>) =>
    ~had_error /\ diags = <<>>

\* parse returned Ok(stmts) with statements, an error was reported, run returned
\* without a step of the interpreter
C9_SkippedParsedProgram ==
  /\ pc = "done"
  /\ parsed = "Ok" /\ stmts # <<>>
  /\ had_error
  /\ steps = 0 /\ output = <<>>

\* the scopes of the chain, outermost first
Scopes(st) == Append(st.envs, st.current)

Declaring(st, name) == {i \in 1..Len(Scopes(st)) : name \in DOMAIN Scopes(st)[i]}

Innermost(S) == CHOOSE i \in S : \A j \in S : j <= i

\* `print x;` is about to be executed
ReadsX == pc = "interpret" /\ cur.m = "execute" /\ cur.stmt = SPrint(EVar(TokX))

\* what the read of x gives, from the scope chain it is read in
ReadOutcome ==
  LET D == Declaring(env, TokX.lexeme)
  IN  IF D = {}
      THEN /\ cur'.res = RErr(InterpreterError(TokX, "Undefined variable"))
           /\ output' = output
      ELSE IF Scopes(env)[Innermost(D)][TokX.lexeme].k = "None"
      THEN /\ cur'.res = RErr(InterpreterError(TokX, "Uninitialized variable"))
           /\ output' = output
      ELSE /\ cur'.res = ROk
           /\ output' = Append(output, to_string(Scopes(env)[Innermost(D)][TokX.lexeme]))

\* C10: a variable read gives the value of the innermost scope that declares the name;
\* it fails with 'Uninitialized variable' when that declaration holds no value and with
\* the distinct 'Undefined variable' when no scope declares the name.  `var x; print x;`
\* fails with the uninitialized-variable error, `var x; x = 1; print x;` prints 1.
C10_VariableRead ==
  /\ [][ReadsX => ReadOutcome]_vars
  /\ []((src = SrcUninit /\ pc = "done") =>
          /\ output = <<>>
          /\ rt_msgs = <<InterpreterError(TokX, "Uninitialized variable")>>)
  /\ []((src = SrcAssignPrint /\ pc = "done") =>
          output = <<<<"1">>>> /\ rt_msgs = <<>>)

\* x is declared with a value in the enclosing scope and without one in the block; the
\* read in the block has failed with 'Uninitialized variable'
C10_ShadowedRead ==
  /\ pc = "interpret" /\ cur.m = "result"
  /\ Len(env.envs) = 1
  /\ TokX.lexeme \in DOMAIN env.current /\ env.current[TokX.lexeme].k = "None"
  /\ TokX.lexeme \in DOMAIN env.envs[1] /\ env.envs[1][TokX.lexeme].k = "Number"
  /\ cur.res = RErr(InterpreterError(TokX, "Uninitialized variable"))

(***************************************************************************)
(* Properties of the scope chain and of statement execution (SpecAst)      *)
(***************************************************************************)
\* `x = 2;` is about to be executed
AssignsX == pc = "interpret" /\ cur.m = "execute" /\ cur.stmt = SExpr(EAssignment(TokX, Two))

\* what the assignment does to the scope chain it is executed in
AssignOutcome ==
  LET D == Declaring(env, TokX.lexeme)
  IN  IF D = {}
      THEN /\ env' = env
           /\ cur'.res = RErr(InterpreterError(TokX, " Undefined variable"))
      ELSE /\ Append(env'.envs, env'.current) =
                [Scopes(env) EXCEPT ![Innermost(D)] = [@ EXCEPT ![TokX.lexeme] = Two.lit]]
           /\ cur'.res = ROk

\* C11: Stack::assign writes the value into the innermost scope that declares the name
\* and changes no other binding of any scope; when no scope declares the name it fails
\* with the undefined-variable error and leaves every scope as it was: an assignment
\* never creates a binding.
C11_AssignFrame == [][AssignsX => AssignOutcome]_vars

\* x is declared in the enclosing scope only, and the assignment executed in the block
\* has written 2 there
C11_AssignedEnclosing ==
  /\ pc = "interpret" /\ cur.m = "result" /\ cur.res = ROk
  /\ Len(env.envs) = 1
  /\ TokX.lexeme \notin DOMAIN env.current
  /\ TokX.lexeme \in DOMAIN env.envs[1] /\ env.envs[1][TokX.lexeme] = Two.lit

\* a `var` statement is about to be executed
Declares == pc = "interpret" /\ cur.m = "execute" /\ cur.stmt.s = "Var"

\* the declaration leaves the enclosing scopes as they are and declares the name in the
\* current scope (no binding when its initializer fails)
DeclaredInCurrent ==
  /\ env'.envs = env.envs
  /\ cur'.res = ROk => cur.stmt.name.lexeme \in DOMAIN env'.current

\* a binding of x that a scope further in shadows is not changed by the step
ShadowedKept ==
  \A i \in 1..Len(env.envs) :
    (/\ TokX.lexeme \in DOMAIN env.envs[i]
     /\ \E j \in (i + 1)..Len(Scopes(env)) : TokX.lexeme \in DOMAIN Scopes(env)[j])
      => /\ i <= Len(env'.envs) + 1
         /\ TokX.lexeme \in DOMAIN Append(env'.envs, env'.current)[i]
         /\ Append(env'.envs, env'.current)[i][TokX.lexeme] = env.envs[i][TokX.lexeme]

\* a step that ends a block drops the block's scope and nothing else
BlockEndRestores ==
  Len(env'.envs) < Len(env.envs) => Append(env'.envs, env'.current) = env.envs

\* C12: a `var` declaration in a block defines the name in the block's own scope only:
\* while the block runs, the outer binding of the same name is not touched by reads and
\* assignments, and when the block has ended the outer binding holds the value it had
\* when the inner declaration ran.  `var a = 1; { var a = 2; print a; } print a;` prints
\* 2 then 1.
C12_Shadowing ==
  /\ [][(Declares => DeclaredInCurrent) /\ ShadowedKept /\ BlockEndRestores]_vars
  /\ []((src = SrcShadow /\ pc = "done") =>
          output = <<<<"2">>, <<"1">>>> /\ rt_msgs = <<>>)

\* in the block x was declared and assigned 2 while the enclosing scope still holds 1
C12_InnerAssignedOuterKept ==
  /\ pc = "interpret"
  /\ Len(env.envs) = 1
  /\ TokX.lexeme \in DOMAIN env.current /\ env.current[TokX.lexeme] = Two.lit
  /\ TokX.lexeme \in DOMAIN env.envs[1] /\ env.envs[1][TokX.lexeme] = One.lit

(***************************************************************************)
(* Properties of visit_binary, on the statement lists `var x = a op b;`    *)
(***************************************************************************)
\* interpret has returned from `var x = a op b;` with op of the token types ops
OpReturned(ops) ==
  /\ pc = "returned"
  /\ stmts \in OpPrograms
  /\ stmts[1].init.op.t_type \in ops

Left == stmts[1].init.l.lit

Right == stmts[1].init.r.lit

\* the evaluation gave the value v, which x now holds
Yields(v) ==
  result = ROk /\ TokX.lexeme \in DOMAIN env.current /\ env.current[TokX.lexeme] = v

\* the evaluation failed with the error err at the operator, and gave no value
FailsWith(err) ==
  /\ result = RErr(InterpreterError(stmts[1].init.op, err))
  /\ TokX.lexeme \notin DOMAIN env.current

Sum(a, b) == Number(a.n * b.d + b.n * a.d, a.d * b.d)

Concatenation(a, b) == String(to_string(a) \o to_string(b))

\* C13: for `+`, two Numbers give their sum, and in every other case the result is the
\* String of the display form of the left operand followed by that of the right
\* operand; there is no third outcome.
C13_PlusSumOrConcat ==
  OpReturned({"Plus"}) =>
    IF Left.k = "Number" /\ Right.k = "Number"
    THEN Yields(Sum(Left, Right))
    ELSE Yields(Concatenation(Left, Right))

\* C13, amended: for `+`, two Numbers give their sum; a Number or String with a Number
\* or String, not both Numbers, give the String of the two display forms, left then
\* right; when an operand is a Boolean or Nil the evaluation fails with the error
\* 'Expected value that can be a String' and gives no value.
C13_PlusSumConcatOrError ==
  OpReturned({"Plus"}) =>
    IF Left.k = "Number" /\ Right.k = "Number"
    THEN Yields(Sum(Left, Right))
    ELSE IF {Left.k, Right.k} \subseteq {"Number", "String"}
    THEN Yields(Concatenation(Left, Right))
    ELSE FailsWith("Expected value that can be a String")

\* `"foo" + 1` has given "foo1"
C13_FooPlusOne ==
  /\ OpReturned({"Plus"})
  /\ Left = String(<<"f", "o", "o">>) /\ Right = Number(1, 1)
  /\ Yields(String(<<"f", "o", "o", "1">>))

(***************************************************************************)
(* Further properties of the parser (run on a source text, Spec)           *)
(***************************************************************************)
\* C14: the ternary operator is right-associative: `a ? b : c ? d : e;` is parsed without
\* an error as the ternary whose condition is a, whose first branch is b and whose
\* second branch is the ternary c ? d : e.
C14_TernaryRightAssoc ==
  (src = SrcTernary /\ pc \notin {"scan", "parse"}) =>
    /\ parsed = "Ok" /\ diags = <<>>
    /\ Len(stmts) = 1
    /\ stmts[1].s = "Expr"
    /\ stmts[1].e.k = "Ternary"
    /\ stmts[1].e.c.k = "Var" /\ stmts[1].e.c.name.lexeme = <<"a">>
    /\ stmts[1].e.t.k = "Var" /\ stmts[1].e.t.name.lexeme = <<"b">>
    /\ stmts[1].e.f.k = "Ternary"
    /\ stmts[1].e.f.c.name.lexeme = <<"c">>

\* C15: for a call f(e1, ..., en) the parser produces a Call node whose argument list
\* holds the n expressions in source order, one per comma-separated argument: `f(1, 2);`
\* is parsed as the call of f with the two arguments 1 and 2.
C15_CallArguments ==
  (src = SrcCall /\ pc \notin {"scan", "parse"}) =>
    /\ parsed = "Ok" /\ diags = <<>>
    /\ Len(stmts) = 1
    /\ stmts[1].s = "Expr"
    /\ stmts[1].e.k = "Call"
    /\ stmts[1].e.callee.k = "Var" /\ stmts[1].e.callee.name.lexeme = <<"f">>
    /\ stmts[1].e.args = <<ELiteral(Number(1, 1)), ELiteral(Number(2, 1))>>

(***************************************************************************)
(* Further properties of run (SpecRun)                                     *)
(***************************************************************************)
\* a statement has returned a runtime error to the call that waits for it
ErrorRaised == pc = "interpret" /\ cur.m = "result" /\ cur.res.r = "Err"

\* the error is handed on unchanged, to the next call or out of interpret; nothing is
\* executed and nothing is printed
ErrorHandedOn ==
  /\ output' = output
  /\ \/ pc' = "interpret" /\ cur'.m = "result" /\ cur'.res = cur.res
     \/ pc' = "returned" /\ result' = cur.res

\* C16: a runtime error ends execution at once: no statement after the failing one is
\* executed, the output printed before the error stays, and exactly one runtime message
\* is reported for the run.  `print 1; print y; print 2;` prints 1 and reports the
\* undefined variable y.
C16_ErrorEndsRun ==
  /\ [][ErrorRaised => ErrorHandedOn]_vars
  /\ [][(pc \in {"returned", "done"}) => (output' = output)]_vars
  /\ [](Len(rt_msgs) <= 1)
  /\ []((pc = "done" /\ result.r = "Err") => rt_msgs = <<result.msg>>)
  /\ []((src = SrcErrorMidway /\ pc = "done") =>
          /\ output = <<<<"1">>>>
          /\ rt_msgs = <<[err |-> "Undefined variable", lexeme |-> <<"y">>, line |-> 1]>>)

\* the run of `print 1; print y; print 2;` has ended with one line printed and one
\* runtime message
C16_StoppedMidway ==
  /\ src = SrcErrorMidway /\ pc = "done"
  /\ output = <<<<"1">>>>
  /\ Len(rt_msgs) = 1

(***************************************************************************)
(* Properties of loops                                                     *)
(***************************************************************************)
IsPrefix(a, b) == Len(a) <= Len(b) /\ a = SubSeq(b, 1, Len(a))

\* C17: `for (init; cond; incr) body` runs init exactly once, checks cond before every
\* iteration, and while cond is truthy runs body and then incr:
\* `for (var i = 0; i < 3; i = i + 1) print i;` is parsed to the block of its init and of
\* the loop of body then incr, it prints 0, 1, 2 in that order and then terminates, and
\* the variable declared in init is no longer defined after the loop.
C17_ForLoop ==
  /\ (src = SrcFor /\ pc \notin {"scan", "parse"}) =>
       /\ parsed = "Ok" /\ diags = <<>>
       /\ Len(stmts) = 1
       /\ stmts[1].s = "Block" /\ Len(stmts[1].stmts) = 2
       /\ stmts[1].stmts[1].s = "Var"
       /\ stmts[1].stmts[2].s = "While"
       /\ stmts[1].stmts[2].body.s = "Block"
       /\ Len(stmts[1].stmts[2].body.stmts) = 2
       /\ stmts[1].stmts[2].body.stmts[1].s = "Print"
       /\ stmts[1].stmts[2].body.stmts[2].s = "Expr"
  /\ src = SrcFor =>
       /\ IsPrefix(output, <<<<"0">>, <<"1">>, <<"2">>>>)
       /\ pc # "panic" /\ steps < MaxSteps
  /\ (src = SrcFor /\ pc = "done") =>
       output = <<<<"0">>, <<"1">>, <<"2">>>> /\ result = ROk /\ rt_msgs = <<>>
  /\ (src = SrcForThenRead /\ pc = "done") =>
       /\ output = <<<<"0">>>>
       /\ rt_msgs = <<[err |-> "Undefined variable", lexeme |-> <<"i">>, line |-> 1]>>

\* the run of the for loop has ended after its three iterations
C17_ForLoopDone ==
  src = SrcFor /\ pc = "done" /\ output = <<<<"0">>, <<"1">>, <<"2">>>> /\ env = NewStack

\* the body of the innermost active loop has returned a result of kind r to the loop
LoopGets(r) ==
  /\ pc = "interpret" /\ cur.m = "result" /\ cur.res.r = r
  /\ frames[Len(frames)].f = "while"

\* the loop ends and returns res; the calls around it, the scopes and the output are
\* as they were
LoopEndsWith(res) ==
  /\ frames' = Pop(frames)
  /\ cur' = CurResult(res)
  /\ pc' = "interpret"
  /\ env' = env /\ output' = output

\* C18: a break signal raised in a While body ends that loop only, and the loop statement
\* then completes normally: with nested loops a break in the inner loop leaves the outer
\* loop running and the statements that follow the inner loop in the outer body are
\* executed; a runtime error raised in the body ends the loop and is propagated unchanged.
C18_BreakEndsInnerLoop ==
  /\ [][(LoopGets("Break") => LoopEndsWith(ROk))
          /\ (LoopGets("Err") => LoopEndsWith(cur.res))]_vars
  /\ []((stmts = ProgNestedBreak /\ pc = "returned") =>
          output = <<<<"2">>>> /\ result = ROk)

\* after the break of the inner loop the outer body has gone on: x = 2 was executed and
\* printed, and the outer loop has ended by its condition
C18_OuterLoopWentOn ==
  /\ stmts = ProgNestedBreak /\ pc = "returned"
  /\ output = <<<<"2">>>>
  /\ env.current[TokX.lexeme] = Two.lit

(***************************************************************************)
(* Further properties of the scanner (run on a source text, Spec)          *)
(***************************************************************************)
\* the tokens of `1;` on line ln, then Eof
OneSemicolonEof(ln) ==
  <<LiteralToken(Number(1, 1), <<"1">>, ln), Token("Semicolon", <<";">>, ln),
    Token("Eof", <<>>, ln)>>

\* C19: a block comment ends only at the `*/` that brings the nesting depth back to zero,
\* no token is produced from the text in between, also when that text holds newlines
\* (each adds one to the line counter), and lexing resumes right after the closing `*/`:
\* `/* a /* b */ c */ 1;` gives the tokens of `1;` on line 1, and the same text with a
\* newline in the comment, `/* a\n */ 1;`, gives them on line 2.
C19_BlockComment ==
  /\ (src \in {SrcNestedComment, SrcCommentNewline} /\ pc = "comment") => tokens = <<>>
  /\ src = SrcNestedComment => line = 1
  /\ src = SrcCommentNewline => line <= 2
  /\ (src = SrcNestedComment /\ pc \notin {"scan", "comment"}) =>
       IsPrefix(OneSemicolonEof(1), tokens) /\ ~had_error
  /\ (src = SrcCommentNewline /\ pc \notin {"scan", "comment"}) =>
       IsPrefix(OneSemicolonEof(2), tokens) /\ ~had_error

\* the nested comment without a newline was skipped and `1;` scanned after it
C19_NestedCommentSkipped ==
  src = SrcNestedComment /\ pc = "parse" /\ tokens = OneSemicolonEof(1) /\ ~had_error

(***************************************************************************)
(* Further properties of visit_binary (SpecRun)                            *)
(***************************************************************************)
NumericOpTypes == {op.t_type : op \in NumericOps}

\* C20: for `-`, `/`, `*`, `>`, `>=`, `<`, `<=`: when an operand is not a Number the
\* evaluation fails with the type error 'Expected number' and yields no value; `/` with
\* two Numbers and the divisor 0 fails with the distinct error 'Division by zero'; with a
\* nonzero divisor it yields the quotient (`1 / 2` is 0.5, printed as 0.5); the other
\* operators yield a value for two Numbers.
C20_NumericOperators ==
  /\ OpReturned(NumericOpTypes) =>
       IF Left.k # "Number" \/ Right.k # "Number" THEN FailsWith("Expected number")
       ELSE IF stmts[1].init.op.t_type # "Slash" THEN result = ROk
       ELSE IF Right = Number(0, 1) THEN FailsWith("Division by zero")
       ELSE Yields(Number(Left.n * Right.d, Left.d * Right.n))
  /\ (OpReturned({"Slash"}) /\ Left = Number(1, 1) /\ Right = Number(2, 1)) =>
       Yields([k |-> "Number", n |-> 1, d |-> 2])
  /\ (src = SrcHalf /\ pc = "done") => output = <<<<"0", ".", "5">>>> /\ rt_msgs = <<>>

\* `1 / 0` has failed with the division-by-zero error
C20_DividedByZero ==
  /\ OpReturned({"Slash"})
  /\ Left = Number(1, 1) /\ Right = Number(0, 1)
  /\ FailsWith("Division by zero")

(***************************************************************************)
(* Properties of visit_logical (SpecAst)                                   *)
(***************************************************************************)
\* interpret has returned from `var y = 3; var x = a op (y = ...);`
LogicalReturned == pc = "returned" /\ stmts \in LogicalPrograms

LogicalLeft == stmts[2].init.l.lit

\* false and nil are falsy, every other value is truthy
Truthy(v) == v \notin {Boolean(FALSE), Nil}

ShortCircuits ==
  \/ stmts[2].init.op.t_type = "Or" /\ Truthy(LogicalLeft)
  \/ stmts[2].init.op.t_type = "And" /\ ~Truthy(LogicalLeft)

\* the global scope with y and x, and no other scope
ScopeWith(y, x) == define(define(NewStack, TokY.lexeme, y), TokX.lexeme, x)

\* the value that one evaluation of the right operand assigns to y and returns
AssignedOnce ==
  IF stmts[2].init.r.value.k = "Literal" THEN stmts[2].init.r.value.lit ELSE Number(4, 1)

\* C21: `or` with a truthy left operand and `and` with a falsy left operand return the
\* left operand's own value without evaluating the right operand: the assignment in the
\* right operand does not happen and the scope chain is unchanged by it; in the other
\* cases the right operand is evaluated once and its value returned.
C21_ShortCircuit ==
  LogicalReturned =>
    /\ result = ROk
    /\ IF ShortCircuits THEN env = ScopeWith(Number(3, 1), LogicalLeft)
       ELSE env = ScopeWith(AssignedOnce, AssignedOnce)

\* `nil and (y = y + 1)` gave nil, not false, and left y at 3
C21_NilLeft ==
  /\ LogicalReturned
  /\ LogicalLeft = Nil
  /\ stmts[2].init.op.t_type = "And"
  /\ stmts[2].init.r.value.k = "Binary"
  /\ result = ROk
  /\ env = ScopeWith(Number(3, 1), Nil)

(***************************************************************************)
(* The operators of Binary nodes (Spec)                                    *)
(***************************************************************************)
\* parse accepted `1, 2;` as the one expression statement Binary(1, Comma, 2) and the
\* context check found nothing
CommaAccepted ==
  /\ src = SrcComma
  /\ parsed = "Ok" /\ ctx_errs = <<>> /\ ~had_error
  /\ Len(stmts) = 1
  /\ stmts[1].s = "Expr"
  /\ stmts[1].e.k = "Binary"
  /\ stmts[1].e.op.t_type = "Comma"

\* C22: every operator token the parser can place in a Binary node, the comma operator
\* included, is handled by visit_binary: evaluating the accepted expression `1, 2` never
\* reaches unreachable!(); the run ends with a value or with a runtime error.
C22_CommaHandled ==
  /\ (src = SrcComma /\ pc \notin {"scan", "comment", "parse"}) => CommaAccepted
  /\ CommaAccepted => pc # "panic"

\* the evaluation of the accepted `1, 2` has run unreachable!()
C22_CommaPanicked ==
  CommaAccepted /\ pc = "panic" /\ output = <<>> /\ rt_msgs = <<>>

====
